---- MODULE Spec2Model ----
(***************************************************************************)
(* A model of d2-viewer: the layer-tree utilities (src/layer-utils.ts),    *)
(* the static export script (scripts/prerender.ts) and the import resolver *)
(* of the watch plugin (src/vite-plugin-d2.ts).                            *)
(*                                                                         *)
(* Strings are sequences of one-character strings, so that concatenation,  *)
(* prefix tests, escaping and serialisation are computed character by      *)
(* character as the code computes them.                                    *)
(***************************************************************************)
EXTENDS Bags, Integers, Sequences, FiniteSets, TLC

VARIABLES
    pc,        \* position of the running script / function under study
    disk,      \* the files on disk (read-only environment of one run)
    title,     \* the document title (-t, or the input's base name)
    fsMap,     \* the virtual file set built by buildFileSystem
    warnings,  \* console.warn lines of buildFileSystem
    diagram,   \* compileResult.diagram
    layers,    \* the LayerNode forest
    targets,   \* flattenTargets(layers)
    svgs,      \* the path -> image mapping, in insertion order
    next,      \* index into targets of the next target to render
    calls,     \* the external calls issued so far, in order, with their outcome
    error,     \* the error main() rejected with, or NoError
    output,    \* the written output file, or NoFile
    stderr,    \* what main().catch printed
    exitCode,  \* the process exit code, or Running
    queue,     \* loadFileWithImports: the worklist of {path, alternatives}
    seen,      \* loadFileWithImports: the paths read
    failed,    \* loadFileWithImports: the paths whose read failed
    rawSvg,    \* the image string handed to ensureSvgDimensions
    sized,     \* the results of its successive applications
    d2Instance,  \* d2-service: the module variable d2Instance, NoHandle for null
    created,     \* d2-service: the number of new D2() evaluated so far
    svcCalls,    \* d2-service: the compile and render calls made so far
    conns,       \* watch plugin: the readyState of every socket accepted so far
    clients,     \* watch plugin: the clients set
    inbox,       \* watch plugin: the load messages whose handlers await the file set (a bag)
    wire,        \* watch plugin: the messages sent by the latest handler run
    events,      \* watch plugin: what the latest handler run dealt with
    embedData,   \* embed viewer: window.D2_DIAGRAM, or NoData
    hash,        \* embed viewer: window.location.hash
    named,       \* embed viewer: the target named by the URL the document was opened with
    currentTarget, \* embed viewer: the currentTarget signal
    embedError,  \* embed viewer: the error signal
    args,        \* export script: the positional argument and the -o option
    paths,       \* export script: inputPath and outputPath, or NoPaths
    written,     \* export script: the path handed to writeFile, or NoPath
    appFilePath, \* App: the filePath signal
    fileSystem,  \* App: the fileSystem signal
    compileResult, \* App: the compileResult signal, or NoResult
    appTarget,   \* App: its currentTarget signal
    shown,       \* App: the svg signal, as the render it came from, or NoSvg
    appError,    \* App: the error signal
    loading,     \* App: the loading signal
    layout,      \* App: the layout signal
    sketch,      \* App: the sketch signal
    connected,   \* App: the connected signal of useD2FileWatcher
    effectRuns,  \* App: the runs of the compile effect awaiting compile or render (a bag)
    renders,     \* App: the render calls of the render effect in flight (a bag)
    loads,       \* App: the load requests sent and neither taken up nor answered (a bag)
    inputs,      \* App: the user inputs and change messages handled so far
    importCount, \* App: the importCount signal
    mounted,     \* watcher hook: the component is mounted (onCleanup has not run)
    sockets,     \* watcher hook: the readyState of every WebSocket created so far
    ws,          \* watcher hook: the variable ws, an index into sockets, NoSocket for null
    reconnectTimer, \* watcher hook: the variable reconnectTimer, NoTimer for undefined
    timers,      \* watcher hook: the timers set and neither fired nor cleared
    serverUp,    \* watcher hook: the server accepts connections
    downstream,  \* live reload: the messages sent by the server and not yet received
    handlers,    \* live reload: the runs of the server's message handler awaiting reads (a bag)
    fsEvents,    \* live reload: the changes on disk not yet reported by the watcher
    edits,       \* live reload: the number of changes made to the disk so far
    zoom         \* both viewers: the zoom signal

\* The state of the import resolver of the watch plugin, and of the image
\* normalizer studied on its own
plugin == <<queue, seen, failed>>
normalizer == <<rawSvg, sized>>

\* The state of the d2-service module
service == <<d2Instance, created, svcCalls>>

\* The state of the live-reload server of the watch plugin
server == <<conns, clients, inbox, wire, events>>

\* The state of the embed viewer and of the page it runs in
embed == <<embedData, hash, named, currentTarget, embedError>>

\* The command line of the export script and the paths derived from it
cli == <<args, paths, written>>

\* The state of the App component of the live viewer
viewer == <<appFilePath, fileSystem, compileResult, appTarget, shown, appError,
            loading, layout, sketch, connected, effectRuns, renders, loads,
            inputs, importCount>>

\* The state of useD2FileWatcher, and whether the server accepts connections
hook == <<mounted, sockets, ws, reconnectTimer, timers, serverUp>>

\* The messages in transit between the App and the watch plugin, the runs of
\* its message handler, and the changes made to the disk meanwhile
reload == <<downstream, handlers, fsEvents, edits>>

\* The zoom of the diagram
view == <<zoom>>

session == <<hook, reload, view>>

\* The state of the interactive parts, and of the command line studied on its
\* own
interactive == <<service, server, embed, cli, viewer, session>>

vars == <<pc, disk, title, fsMap, warnings, diagram, layers, targets, svgs,
          next, calls, error, output, stderr, exitCode, plugin, normalizer,
          interactive>>

\* The state of the export script and of the functions studied on their own
batch == <<disk, title, fsMap, warnings, diagram, layers, targets, svgs,
         next, calls, error, output, stderr, exitCode, plugin, normalizer>>

-----------------------------------------------------------------------------
(* Bounds *)

\* Largest number of boards (null entries included) in a compiled diagram
\* handed to extractLayers on its own.
MaxNodes == 3

\* Largest number of boards in a diagram compiled during an export run.
MaxExportNodes == 3

\* Longest title handed to generateHtml on its own.
MaxTitleLen == 3

\* Largest number of @references in the text of the entry file handed to the
\* import resolvers on their own.
MaxRefs == 2

\* Largest number of attributes on the outer tag of an image string handed to
\* ensureSvgDimensions on its own.
MaxAttrs == 2

\* Largest number of shapes on the board handed to extractTitle on its own.
MaxShapes == 2

\* Longest label (the markdown marker not counted) of the title shape handed
\* to extractTitle on its own.
MaxLabelLen == 4

\* Largest number of sockets the live-reload server accepts.
MaxClients == 2

\* Largest number of load messages whose handlers await their file set at
\* the same time.
MaxMessages == 2

\* Longest name of the input file given to the export script.
MaxNameLen == 4

\* Largest number of compile and render calls made to the d2-service.
MaxCalls == 3

\* Largest number of user inputs and change messages the App handles.
MaxInputs == 1

\* Most WebSocket objects not yet closed, and most timers pending, at once.
MaxSockets == 2
MaxTimers == 2

\* Most writes to the watched files while the App is connected.
MaxEdits == 2

\* Longest path, in segments, that a run of loadFileWithImports is followed
\* to: a run that queues a longer path is followed no further.
MaxPathSegs == 5

-----------------------------------------------------------------------------
(* String helpers *)

Dot == <<".">>

StartsWith(s, p) ==
    /\ Len(s) >= Len(p)
    /\ SubSeq(s, 1, Len(p)) = p

EndsWith(s, p) ==
    /\ Len(s) >= Len(p)
    /\ SubSeq(s, Len(s) - Len(p) + 1, Len(s)) = p

Includes(s, c) == \E i \in 1..Len(s) : s[i] = c

\* \s of a JavaScript regular expression, over the characters used here
IsSpace(c) == c \in {" ", "\n", "\t"}

RECURSIVE TrimStart(_)
TrimStart(s) ==
    IF s # <<>> /\ IsSpace(Head(s)) THEN TrimStart(Tail(s)) ELSE s

RECURSIVE TrimEnd(_)
TrimEnd(s) ==
    IF s # <<>> /\ IsSpace(s[Len(s)])
    THEN TrimEnd(SubSeq(s, 1, Len(s) - 1))
    ELSE s

Trim(s) == TrimEnd(TrimStart(s))

\* The part of s from position i up to (not including) the next newline
LineFrom(s, i) ==
    LET ends == {j \in i..Len(s) : s[j] = "\n"}
        stop == IF ends = {} THEN Len(s) + 1
                ELSE CHOOSE j \in ends : \A k \in ends : j <= k
    IN  SubSeq(s, i, stop - 1)

\* s.split("\n")
RECURSIVE SplitLines(_)
SplitLines(s) ==
    LET line == LineFrom(s, 1)
    IN  IF Len(line) = Len(s) THEN <<line>>
        ELSE <<line>> \o SplitLines(SubSeq(s, Len(line) + 2, Len(s)))

-----------------------------------------------------------------------------
(* Literals *)

KwLayers == <<"l", "a", "y", "e", "r", "s">>
KwScenarios == <<"s", "c", "e", "n", "a", "r", "i", "o", "s">>
KwSteps == <<"s", "t", "e", "p", "s">>

TypeLayer == <<"l", "a", "y", "e", "r">>
TypeScenario == <<"s", "c", "e", "n", "a", "r", "i", "o">>
TypeStep == <<"s", "t", "e", "p">>

IdTitle == <<"t", "i", "t", "l", "e">>
IdDotTitle == <<".", "t", "i", "t", "l", "e">>
IdConfig == <<"d", "2", "-", "c", "o", "n", "f", "i", "g">>
IdConfigDot == <<"d", "2", "-", "c", "o", "n", "f", "i", "g", ".">>
MdMarker == <<"|", "m", "d">>

Auth == <<"a", "u", "t", "h">>
Timeout == <<"t", "i", "m", "e", "o", "u", "t">>

-----------------------------------------------------------------------------
(* src/layer-utils.ts: extractMarkdownTitle, extractTitle *)

\* label.replace(/^\|md\s*\n?/, ""): the greedy \s* also consumes newlines
StripMdPrefix(label) ==
    IF StartsWith(label, MdMarker)
    THEN TrimStart(SubSeq(label, 4, Len(label)))
    ELSE label

\* Whether position i of s is where ^ matches under the m flag
IsLineStart(s, i) == i = 1 \/ s[i - 1] = "\n"

\* /^#+\s+(.+)$/m tried at position i: the set of positions at which group 1
\* can start. #+ takes the whole run of #, \s+ takes j >= 1 spaces, and .+
\* needs one character that is not a newline.
HeadingStarts(s, i) ==
    IF ~(i <= Len(s) /\ IsLineStart(s, i) /\ s[i] = "#") THEN {}
    ELSE
        LET hashEnd == CHOOSE k \in i..Len(s) :
                          /\ \A m \in i..k : s[m] = "#"
                          /\ (k = Len(s) \/ s[k + 1] # "#")
        IN  {g \in (hashEnd + 2)..Len(s) :
                /\ \A m \in (hashEnd + 1)..(g - 1) : IsSpace(s[m])
                /\ s[g] # "\n"}

\* content.match(/^#+\s+(.+)$/m): group 1 of the leftmost match, \s+ greedy;
\* <<>> paired with found = FALSE when there is no match
HeadingMatch(s) ==
    LET at == {i \in 1..Len(s) : HeadingStarts(s, i) # {}}
    IN  IF at = {} THEN [found |-> FALSE, group |-> <<>>]
        ELSE LET i == CHOOSE a \in at : \A b \in at : a <= b
                 gs == HeadingStarts(s, i)
                 g == CHOOSE a \in gs : \A b \in gs : a >= b
             IN  [found |-> TRUE, group |-> LineFrom(s, g)]

ExtractMarkdownTitle(label) ==
    LET content == StripMdPrefix(label)
        headingMatch == HeadingMatch(content)
        lines == SplitLines(content)
        nonEmpty == {i \in 1..Len(lines) : Trim(lines[i]) # <<>>}
    IN  IF headingMatch.found THEN Trim(headingMatch.group)
        ELSE IF nonEmpty = {} THEN label
        ELSE Trim(lines[CHOOSE i \in nonEmpty : \A k \in nonEmpty : i <= k])

\* A predicate that does not skip the d2-config shapes
IsTitleShapeNoSkip(s) == s.id = IdTitle \/ EndsWith(s.id, IdDotTitle)

\* The predicate of diagram.shapes?.find(...)
IsTitleShape(s) ==
    IF s.id = IdConfig \/ StartsWith(s.id, IdConfigDot) THEN FALSE
    ELSE s.id = IdTitle \/ EndsWith(s.id, IdDotTitle)

\* undefined is modelled as the empty string: the one caller tests the result
\* for truthiness only (title && {title}), which both fail.
ExtractTitle(board) ==
    LET hits == {i \in 1..Len(board.shapes) : IsTitleShape(board.shapes[i])}
    IN  IF hits = {} THEN <<>>
        ELSE LET titleShape ==
                     board.shapes[CHOOSE i \in hits : \A k \in hits : i <= k]
             IN  IF "label" \in DOMAIN titleShape
                 THEN IF StartsWith(titleShape.label, MdMarker)
                         \/ Includes(titleShape.label, "#")
                      THEN ExtractMarkdownTitle(titleShape.label)
                      ELSE titleShape.label
                 ELSE <<>>

-----------------------------------------------------------------------------
(* src/layer-utils.ts: extractLayers, flattenTargets *)

\* A null entry of a layers / scenarios / steps array
NullBoard == [null |-> TRUE]

\* ${parentPath}.${name} below the root, ${keyword}.${name} at the root
NodePath(parentPath, keyword, name) ==
    IF parentPath # <<>> THEN parentPath \o Dot \o name
    ELSE keyword \o Dot \o name

RECURSIVE ExtractLayers(_, _)
RECURSIVE ExtractCollection(_, _, _, _)

RECURSIVE ExtractCollectionReversed(_, _, _, _)
\* A loop that puts each node in front of the ones pushed before it
ExtractCollectionReversed(boards, parentPath, keyword, type) ==
    IF boards = <<>> THEN <<>>
    ELSE LET board == Head(boards)
             rest == ExtractCollectionReversed(Tail(boards), parentPath,
                                               keyword, type)
         IN  IF board = NullBoard THEN rest
             ELSE LET path == NodePath(parentPath, keyword, board.name)
                  IN  rest \o <<[name |-> board.name, path |-> path,
                                 type |-> type,
                                 children |-> ExtractLayers(board, path)]>>

\* One of the three for-loops of extractLayers
ExtractCollection(boards, parentPath, keyword, type) ==
    IF boards = <<>> THEN <<>>
    ELSE LET board == Head(boards)
             rest == ExtractCollection(Tail(boards), parentPath, keyword, type)
         IN  IF board = NullBoard THEN rest
             ELSE LET path == NodePath(parentPath, keyword, board.name)
                      ttl == ExtractTitle(board)
                      base == [name |-> board.name, path |-> path,
                               type |-> type,
                               children |-> ExtractLayers(board, path)]
                      node == IF ttl # <<>>
                              THEN [name |-> base.name, path |-> base.path,
                                    type |-> base.type, title |-> ttl,
                                    children |-> base.children]
                              ELSE base
                  IN  <<node>> \o rest

\* An absent collection reads as [] (diagram.layers ?? []), so the empty
\* sequence stands for both.
ExtractLayers(board, parentPath) ==
    ExtractCollection(board.layers, parentPath, KwLayers, TypeLayer)
      \o ExtractCollection(board.scenarios, parentPath, KwScenarios, TypeScenario)
      \o ExtractCollection(board.steps, parentPath, KwSteps, TypeStep)

RECURSIVE TraverseChildrenFirst(_, _)
\* A traverse that pushes a node's path after its children's
TraverseChildrenFirst(nodes, acc) ==
    IF nodes = <<>> THEN acc
    ELSE TraverseChildrenFirst(
             Tail(nodes),
             Append(TraverseChildrenFirst(Head(nodes).children, acc),
                    Head(nodes).path))

RECURSIVE Traverse(_, _)
\* traverse(nodes) of flattenTargets, with the targets array passed along
Traverse(nodes, acc) ==
    IF nodes = <<>> THEN acc
    ELSE Traverse(Tail(nodes),
                  Traverse(Head(nodes).children, Append(acc, Head(nodes).path)))

FlattenTargets(forest) == Traverse(forest, <<>>)

-----------------------------------------------------------------------------
(* Compiled diagrams: what the external compiler can return *)

BoardNames == {Auth, Timeout}

LabelMd == <<"|", "m", "d", "\n", "#", " ", "A">>
LabelCfg == <<"c", "f", "g">>

\* The shapes of a compiled board: the boards named auth carry a title shape
\* (after a d2-config one), the others carry none.
ShapesOf(nm) ==
    IF nm = Auth
    THEN << [id |-> IdConfigDot \o IdTitle, label |-> LabelCfg],
            [id |-> IdTitle, label |-> LabelMd] >>
    ELSE <<>>

RECURSIVE BoardSize(_)
RECURSIVE ListSize(_)
BoardSize(b) ==
    IF b = NullBoard THEN 1
    ELSE 1 + ListSize(b.layers) + ListSize(b.scenarios) + ListSize(b.steps)
ListSize(l) == IF l = <<>> THEN 0 ELSE BoardSize(Head(l)) + ListSize(Tail(l))

\* The compiler keys the boards of one collection by name
NameFresh(b, l) ==
    b = NullBoard \/ \A i \in 1..Len(l) : l[i] = NullBoard \/ l[i].name # b.name

RECURSIVE BoardsUpTo(_)
RECURSIVE ListsUpTo(_)
RECURSIVE TriplesUpTo(_)

\* Sequences of boards (or nulls) with at most n boards in all
ListsUpTo(n) ==
    {<<>>} \cup
    IF n < 1 THEN {}
    ELSE UNION { { <<b>> \o rest :
                     rest \in {r \in ListsUpTo(n - BoardSize(b)) : NameFresh(b, r)} } :
                 b \in BoardsUpTo(n) \cup {NullBoard} }

TriplesUpTo(n) ==
    UNION { UNION { { <<l, s, t>> :
                        t \in ListsUpTo(n - ListSize(l) - ListSize(s)) } :
                    s \in ListsUpTo(n - ListSize(l)) } :
            l \in ListsUpTo(n) }

BoardsUpTo(n) ==
    IF n < 1 THEN {}
    ELSE { [name |-> nm, shapes |-> ShapesOf(nm),
            layers |-> t[1], scenarios |-> t[2], steps |-> t[3]] :
           nm \in BoardNames, t \in TriplesUpTo(n - 1) }

\* Root diagrams with at most n boards below the root
DiagramsUpTo(n) ==
    { [name |-> <<>>, shapes |-> <<>>,
       layers |-> t[1], scenarios |-> t[2], steps |-> t[3]] :
      t \in TriplesUpTo(n) }

NoDiagram == [name |-> <<>>, shapes |-> <<>>,
              layers |-> <<>>, scenarios |-> <<>>, steps |-> <<>>]

-----------------------------------------------------------------------------
(* Sentinels *)

NoError == [kind |-> "none", at |-> 0]
NoHandle == 0
NoInput == [kind |-> "none"]
NoData == [present |-> FALSE]
NoArgs == [given |-> FALSE]
NoPaths == [parsed |-> FALSE]
NoPath == [written |-> FALSE]
NoOption == [given |-> FALSE]
NoResult == [compiled |-> FALSE]
NoSvg == [rendered |-> FALSE]
NoSocket == 0
NoTimer == 0

\* Zoom factors are kept in ten-thousandths: this is the factor 1
ZoomOne == 10000
NoFile == [written |-> FALSE]
Running == -1

\* The export script idle: nothing of it runs in the browser
BatchIdle ==
    /\ disk = <<>>
    /\ title = <<>>
    /\ fsMap = <<>>
    /\ warnings = <<>>
    /\ diagram = NoDiagram
    /\ layers = <<>>
    /\ targets = <<>>
    /\ svgs = <<>>
    /\ next = 1
    /\ calls = <<>>
    /\ error = NoError
    /\ output = NoFile
    /\ stderr = <<>>
    /\ exitCode = Running
    /\ queue = <<>>
    /\ seen = {}
    /\ failed = {}
    /\ rawSvg = <<>>
    /\ sized = <<>>

\* The d2-service module as loaded: no handle yet, no call made
ServiceIdle ==
    /\ d2Instance = NoHandle
    /\ created = 0
    /\ svcCalls = <<>>

\* The live-reload server not started
ServerIdle ==
    /\ conns = <<>>
    /\ clients = {}
    /\ inbox = EmptyBag
    /\ wire = <<>>
    /\ events = NoInput

\* No exported document is open
EmbedIdle ==
    /\ embedData = NoData
    /\ hash = <<>>
    /\ named = <<>>
    /\ currentTarget = <<>>
    /\ embedError = FALSE

\* The command line not looked at
CliIdle ==
    /\ args = NoArgs
    /\ paths = NoPaths
    /\ written = NoPath

\* The App not mounted
ViewerIdle ==
    /\ appFilePath = <<>>
    /\ fileSystem = <<>>
    /\ compileResult = NoResult
    /\ appTarget = <<>>
    /\ shown = NoSvg
    /\ appError = ""
    /\ loading = FALSE
    /\ layout = "dagre"
    /\ sketch = FALSE
    /\ connected = FALSE
    /\ effectRuns = EmptyBag
    /\ renders = EmptyBag
    /\ loads = EmptyBag
    /\ inputs = 0
    /\ importCount = 0

\* The watcher hook not created
HookIdle ==
    /\ mounted = FALSE
    /\ sockets = <<>>
    /\ ws = NoSocket
    /\ reconnectTimer = NoTimer
    /\ timers = {}
    /\ serverUp = FALSE

\* Nothing in transit, no handler running, the disk untouched
ReloadIdle ==
    /\ downstream = <<>>
    /\ handlers = EmptyBag
    /\ fsEvents = {}
    /\ edits = 0

ViewIdle == zoom = ZoomOne

SessionIdle == HookIdle /\ ReloadIdle /\ ViewIdle

InteractiveIdle ==
    /\ ServiceIdle
    /\ ServerIdle
    /\ EmbedIdle
    /\ CliIdle
    /\ ViewerIdle
    /\ SessionIdle

-----------------------------------------------------------------------------
(* The layer utilities applied to a compiled diagram                        *)
(* (scripts/prerender.ts lines 228-229, src/d2-service.ts compile)          *)

ExtractStep ==
    /\ pc = "compiled"
    /\ layers' = ExtractLayers(diagram, <<>>)
    /\ pc' = "extracted"
    /\ UNCHANGED <<interactive, plugin, normalizer, disk, title, fsMap, warnings, diagram, targets, svgs, next,
                   calls, error, output, stderr, exitCode>>

FlattenStep ==
    /\ pc = "extracted"
    /\ targets' = FlattenTargets(layers)
    /\ pc' = "flattened"
    /\ UNCHANGED <<interactive, plugin, normalizer, disk, title, fsMap, warnings, diagram, layers, svgs, next,
                   calls, error, output, stderr, exitCode>>

InitLayers ==
    /\ pc = "compiled"
    /\ diagram \in DiagramsUpTo(MaxNodes)
    /\ disk = <<>>
    /\ title = <<>>
    /\ fsMap = <<>>
    /\ warnings = <<>>
    /\ layers = <<>>
    /\ targets = <<>>
    /\ svgs = <<>>
    /\ next = 1
    /\ calls = <<>>
    /\ error = NoError
    /\ output = NoFile
    /\ stderr = <<>>
    /\ exitCode = Running
    /\ queue = <<>>
    /\ seen = {}
    /\ failed = {}
    /\ rawSvg = <<>>
    /\ sized = <<>>
    /\ InteractiveIdle

NextLayers == ExtractStep \/ FlattenStep

SpecLayers == InitLayers /\ [][NextLayers]_vars

-----------------------------------------------------------------------------
(* extractLayers applied to a diagram with one board, whose shape list      *)
(* varies (src/layer-utils.ts extractTitle, called at lines 564, 580, 594)  *)

IdA == <<"a">>

\* Identifiers of shapes: title, a.title, d2-config, d2-config.title,
\* d2-config.a.title, a, atitle, xd2-config.title
ShapeIds ==
    { IdTitle, IdA \o IdDotTitle, IdConfig, IdConfigDot \o IdTitle,
      IdConfigDot \o IdA \o IdDotTitle, IdA, IdA \o IdTitle,
      <<"x">> \o IdConfigDot \o IdTitle }

ShapeLabels == { <<"A">>, <<"B">>, <<>>, LabelMd }

\* A shape as the compiler reports it, and one without a label field
TitleShapes ==
    { [id |-> i, label |-> l] : i \in ShapeIds, l \in ShapeLabels }
        \cup { [id |-> IdTitle] }

RECURSIVE SeqsUpTo(_, _)
\* The sequences over S of length at most n
SeqsUpTo(S, n) ==
    IF n = 0 THEN {<<>>}
    ELSE LET shorter == SeqsUpTo(S, n - 1)
         IN  shorter \cup {Append(q, x) : q \in shorter, x \in S}

LabelChars == {"#", " ", "\n", "a", "b"}

\* The labels of a title shape: with and without the markdown marker
Labels ==
    LET bodies == SeqsUpTo(LabelChars, MaxLabelLen)
    IN  bodies \cup {MdMarker \o b : b \in bodies}

ShapeLists ==
    SeqsUpTo(TitleShapes, MaxShapes)
        \cup { <<[id |-> IdTitle, label |-> l]>> : l \in Labels }

BoardWith(shapes) ==
    [name |-> Auth, shapes |-> shapes,
     layers |-> <<>>, scenarios |-> <<>>, steps |-> <<>>]

\* Root diagrams whose one board is a layer, a scenario or a step
TitleDiagrams ==
    { [name |-> <<>>, shapes |-> <<>>,
       layers |-> IF kind = TypeLayer THEN <<BoardWith(sh)>> ELSE <<>>,
       scenarios |-> IF kind = TypeScenario THEN <<BoardWith(sh)>> ELSE <<>>,
       steps |-> IF kind = TypeStep THEN <<BoardWith(sh)>> ELSE <<>>] :
      kind \in {TypeLayer, TypeScenario, TypeStep}, sh \in ShapeLists }

InitTitles ==
    /\ pc = "compiled"
    /\ diagram \in TitleDiagrams
    /\ disk = <<>>
    /\ title = <<>>
    /\ fsMap = <<>>
    /\ warnings = <<>>
    /\ layers = <<>>
    /\ targets = <<>>
    /\ svgs = <<>>
    /\ next = 1
    /\ calls = <<>>
    /\ error = NoError
    /\ output = NoFile
    /\ stderr = <<>>
    /\ exitCode = Running
    /\ queue = <<>>
    /\ seen = {}
    /\ failed = {}
    /\ rawSvg = <<>>
    /\ sized = <<>>
    /\ InteractiveIdle

SpecTitles == InitTitles /\ [][NextLayers]_vars

-----------------------------------------------------------------------------
(* Paths (node:path), as sequences of segments; a segment is a string *)

ExtD2 == <<".", "d", "2">>
SegUp == <<".", ".">>
SegHere == <<".">>

RECURSIVE NormalizeOnto(_, _)
\* path.normalize: "." is dropped, ".." removes the segment before it
NormalizeOnto(done, segs) ==
    IF segs = <<>> THEN done
    ELSE LET seg == Head(segs)
         IN  IF seg = SegHere THEN NormalizeOnto(done, Tail(segs))
             ELSE IF seg = SegUp
                  THEN NormalizeOnto(
                           IF done = <<>> THEN done
                           ELSE SubSeq(done, 1, Len(done) - 1),
                           Tail(segs))
                  ELSE NormalizeOnto(Append(done, seg), Tail(segs))

\* resolve(p) of an absolute path
Resolve(p) == NormalizeOnto(<<>>, p)

\* join(dir, ref)
Join(dir, ref) == NormalizeOnto(<<>>, dir \o ref)

Dirname(p) == SubSeq(p, 1, Len(p) - 1)

Basename(p) == p[Len(p)]

\* relative(from, to)
Relative(from, to) ==
    LET same == {k \in 0..Len(from) :
                    k <= Len(to) /\ SubSeq(from, 1, k) = SubSeq(to, 1, k)}
        k == CHOOSE a \in same : \A b \in same : a >= b
    IN  [i \in 1..(Len(from) - k) |-> SegUp] \o SubSeq(to, k + 1, Len(to))

\* if (!importPath.endsWith(".d2")) importPath += ".d2"
WithD2(p) ==
    IF EndsWith(Basename(p), ExtD2) THEN p
    ELSE [p EXCEPT ![Len(p)] = @ \o ExtD2]

-----------------------------------------------------------------------------
(* The disk *)

SegProj == <<"p", "r", "o", "j">>
SegMain == <<"m", "a", "i", "n", ".", "d", "2">>
SegMainStem == <<"m", "a", "i", "n">>
SegA == <<"a">>
SegAd2 == <<"a", ".", "d", "2">>
SegB == <<"b">>
SegBd2 == <<"b", ".", "d", "2">>
SegSub == <<"s", "u", "b">>
SegLib == <<"l", "i", "b">>
SegGone == <<"g", "o", "n", "e">>

\* resolve(positionals[0])
inputPath == <<SegProj, SegMain>>

\* A file's text is a sequence of tokens: a spread import (...@ref), a named
\* import (name: @ref), an @ref inside a comment or a label (which the
\* compiler does not import), or other text.
Spread(ref) == [kind |-> "spread", ref |-> ref]
Named(ref) == [kind |-> "named", ref |-> ref]
Mention(ref) == [kind |-> "mention", ref |-> ref]
Text == [kind |-> "text"]

File(content) == [kind |-> "file", content |-> content]
Directory == [kind |-> "dir"]

\* One file, no import
DiskPlain == (<<SegProj, SegMain>> :> File(<<Text>>))

\* main.d2 spreads a.d2, which names main back, and names a missing file
DiskCycle ==
    (<<SegProj, SegMain>> :> File(<<Spread(<<SegA>>), Text, Named(<<SegGone>>)>>))
    @@ (<<SegProj, SegAd2>> :> File(<<Named(<<SegMainStem>>)>>))

\* main.d2 names sub/b, whose own spread of ../a.d2 and of b resolve against
\* sub/; a comment of main.d2 mentions @lib, and lib is a directory
DiskNested ==
    (<<SegProj, SegMain>> :>
        File(<<Named(<<SegSub, SegB>>), Mention(<<SegLib>>), Text>>))
    @@ (<<SegProj, SegSub, SegBd2>> :>
        File(<<Spread(<<SegUp, SegAd2>>), Spread(<<SegB>>)>>))
    @@ (<<SegProj, SegAd2>> :> File(<<Text>>))
    @@ (<<SegProj, SegLib>> :> Directory)

\* The entry file is missing
DiskNoEntry == (<<SegProj, SegAd2>> :> File(<<Text>>))

Disks == {DiskPlain, DiskCycle, DiskNested, DiskNoEntry}

\* access(path) resolves
CanAccess(dsk, path) == path \in DOMAIN dsk

\* readFile(path, "utf-8") resolves
CanRead(dsk, path) == path \in DOMAIN dsk /\ dsk[path].kind = "file"

-----------------------------------------------------------------------------
(* scripts/prerender.ts: buildFileSystem *)

RECURSIVE PatternRefs(_)
\* The match[1] of every match of /(?:\.\.\.)?@([^\s\n;{}]+)/g, in order:
\* every @ref of the text, wherever it stands
PatternRefs(content) ==
    IF content = <<>> THEN <<>>
    ELSE IF Head(content).kind = "text" THEN PatternRefs(Tail(content))
    ELSE <<Head(content).ref>> \o PatternRefs(Tail(content))

ReadWarning(path) == [kind |-> "read", path |-> path]
ImportWarning(ref, from) == [kind |-> "import", ref |-> ref, from |-> from]

RECURSIVE ProcessFile(_, _, _, _)
RECURSIVE ProcessRefs(_, _, _, _, _)

\* processFile(filePath), on the closure state st = [fs, processed, warnings,
\* reads]; reads lists the readFile calls in order
ProcessFile(filePath, st, dsk, baseDir) ==
    LET normalizedPath == Resolve(filePath)
    IN  IF normalizedPath \in st.processed THEN st
        ELSE LET marked == [st EXCEPT !.processed = @ \cup {normalizedPath},
                                    !.reads = Append(@, normalizedPath)]
             IN  IF ~CanRead(dsk, normalizedPath)
                 THEN [marked EXCEPT
                          !.warnings = Append(@, ReadWarning(normalizedPath))]
                 ELSE LET content == dsk[normalizedPath].content
                          relativePath == Relative(baseDir, normalizedPath)
                          stored == [marked EXCEPT
                                        !.fs = (relativePath :> content) @@ @]
                      IN  ProcessRefs(PatternRefs(content), normalizedPath,
                                      stored, dsk, baseDir)

\* The while loop over the matches found in one file
ProcessRefs(refs, normalizedPath, st, dsk, baseDir) ==
    IF refs = <<>> THEN st
    ELSE LET importRef == Head(refs)
             currentDir == Dirname(normalizedPath)
             importPath == WithD2(Join(currentDir, importRef))
             altPath == Join(currentDir, importRef)
             after ==
                 IF CanAccess(dsk, importPath)
                 THEN ProcessFile(importPath, st, dsk, baseDir)
                 ELSE IF CanAccess(dsk, altPath)
                 THEN ProcessFile(altPath, st, dsk, baseDir)
                 ELSE [st EXCEPT !.warnings =
                          Append(@, ImportWarning(importRef,
                                     Relative(baseDir, normalizedPath)))]
         IN  ProcessRefs(Tail(refs), normalizedPath, after, dsk, baseDir)

BuildFileSystem(entryPath, dsk) ==
    ProcessFile(entryPath,
                [fs |-> <<>>, processed |-> {}, warnings |-> <<>>, reads |-> <<>>],
                dsk, Dirname(entryPath))

-----------------------------------------------------------------------------
(* scripts/prerender.ts: ensureSvgDimensions *)

SvgOpen == <<"<", "s", "v", "g">>
AttrWidth == <<"w", "i", "d", "t", "h">>
AttrViewBox == <<"v", "i", "e", "w", "B", "o", "x">>
WidthEq == <<" ", "w", "i", "d", "t", "h", "=", "\"">>
HeightEq == <<"\"", " ", "h", "e", "i", "g", "h", "t", "=", "\"">>

IsQuote(c) == c \in {"\"", "'"}

Least(S) == CHOOSE a \in S : \A b \in S : a <= b

\* svg.match(/^(<svg\s+[^>]*)(>)/): the position of the closing angle
\* bracket of the outer tag, or 0 when the pattern does not match
SvgTagClose(svg) ==
    LET closes == {i \in 1..Len(svg) : svg[i] = ">"}
    IN  IF /\ StartsWith(svg, SvgOpen)
           /\ Len(svg) >= 6
           /\ IsSpace(svg[5])
           /\ closes # {}
           /\ Least(closes) >= 6
        THEN Least(closes)
        ELSE 0

\* /\swidth\s*=/.test(openTag)
HasWidthAttr(openTag) ==
    \E i \in 1..Len(openTag) :
        /\ IsSpace(openTag[i])
        /\ i + 5 <= Len(openTag)
        /\ SubSeq(openTag, i + 1, i + 5) = AttrWidth
        /\ \E j \in (i + 6)..Len(openTag) :
              /\ openTag[j] = "="
              /\ \A m \in (i + 6)..(j - 1) : IsSpace(openTag[m])

\* openTag.match(/viewBox\s*=\s*["']([^"']+)["']/) tried at position i: the
\* pairs <<first, last>> delimiting group 1
ViewBoxGroupsAt(openTag, i) ==
    IF ~(i + 6 <= Len(openTag) /\ SubSeq(openTag, i, i + 6) = AttrViewBox)
    THEN {}
    ELSE { <<q + 1, c - 1>> :
             <<q, c>> \in
               { qc \in (1..Len(openTag)) \X (1..Len(openTag)) :
                   /\ IsQuote(openTag[qc[1]])
                   /\ IsQuote(openTag[qc[2]])
                   /\ qc[2] > qc[1] + 1
                   /\ \A m \in (qc[1] + 1)..(qc[2] - 1) : ~IsQuote(openTag[m])
                   /\ \E e \in (i + 7)..(qc[1] - 1) :
                         /\ openTag[e] = "="
                         /\ \A m \in (i + 7)..(e - 1) : IsSpace(openTag[m])
                         /\ \A m \in (e + 1)..(qc[1] - 1) : IsSpace(openTag[m]) } }

\* viewBoxMatch[1] of the leftmost match, or found = FALSE
ViewBoxMatch(openTag) ==
    LET at == {i \in 1..Len(openTag) : ViewBoxGroupsAt(openTag, i) # {}}
    IN  IF at = {} THEN [found |-> FALSE, group |-> <<>>]
        ELSE LET g == CHOOSE x \in ViewBoxGroupsAt(openTag, Least(at)) : TRUE
             IN  [found |-> TRUE, group |-> SubSeq(openTag, g[1], g[2])]

RECURSIVE SplitSpaces(_)
\* s.split(/\s+/)
SplitSpaces(s) ==
    LET spaces == {i \in 1..Len(s) : IsSpace(s[i])}
    IN  IF spaces = {} THEN <<s>>
        ELSE LET i == Least(spaces)
                 past == {j \in i..Len(s) : \A m \in i..j : IsSpace(s[m])}
                 j == CHOOSE a \in past : \A b \in past : a >= b
             IN  <<SubSeq(s, 1, i - 1)>> \o SplitSpaces(SubSeq(s, j + 1, Len(s)))

RECURSIVE ExpandReplacement(_, _, _)
\* The special patterns of the replacement string of String.prototype.replace:
\* $$ is a dollar sign, $& the matched text, $' the text after the match.
\* (The fourth pattern, the text before the match, needs a grave accent,
\* which no image string here carries.)
ExpandReplacement(repl, matched, after) ==
    IF repl = <<>> THEN <<>>
    ELSE IF Head(repl) = "$" /\ Len(repl) >= 2 /\ repl[2] \in {"$", "&", "'"}
    THEN (CASE repl[2] = "$" -> <<"$">>
            [] repl[2] = "&" -> matched
            [] repl[2] = "'" -> after)
         \o ExpandReplacement(SubSeq(repl, 3, Len(repl)), matched, after)
    ELSE <<Head(repl)>> \o ExpandReplacement(Tail(repl), matched, after)

\* A normalizer without the test for an existing width attribute
EnsureSvgDimensionsNoWidthTest(svg) ==
    LET close == SvgTagClose(svg)
    IN  IF close = 0 THEN svg
        ELSE
          LET openTag == SubSeq(svg, 1, close - 1)
              fullMatch == SubSeq(svg, 1, close)
              rest == SubSeq(svg, close + 1, Len(svg))
              viewBoxMatch == ViewBoxMatch(openTag)
              fields == SplitSpaces(viewBoxMatch.group)
          IN  IF ~viewBoxMatch.found THEN svg
              ELSE IF Len(fields) < 4 \/ fields[3] = <<>> \/ fields[4] = <<>>
              THEN svg
              ELSE LET newOpenTag == openTag \o WidthEq \o fields[3]
                                       \o HeightEq \o fields[4] \o <<"\"">>
                   IN  ExpandReplacement(newOpenTag \o <<">">>, fullMatch, rest)
                         \o rest

EnsureSvgDimensions(svg) ==
    LET close == SvgTagClose(svg)
    IN  IF close = 0 THEN svg
        ELSE
          LET openTag == SubSeq(svg, 1, close - 1)
              fullMatch == SubSeq(svg, 1, close)
              rest == SubSeq(svg, close + 1, Len(svg))
              viewBoxMatch == ViewBoxMatch(openTag)
              fields == SplitSpaces(viewBoxMatch.group)
          IN  IF HasWidthAttr(openTag) THEN svg
              ELSE IF ~viewBoxMatch.found THEN svg
              ELSE IF Len(fields) < 4 \/ fields[3] = <<>> \/ fields[4] = <<>>
              THEN svg
              ELSE LET newOpenTag == openTag \o WidthEq \o fields[3]
                                       \o HeightEq \o fields[4] \o <<"\"">>
                   IN  ExpandReplacement(newOpenTag \o <<">">>, fullMatch, rest)
                         \o rest

-----------------------------------------------------------------------------
(* scripts/prerender.ts: generateHtml, escapeHtml *)

RECURSIVE Concat(_)
\* The concatenation of a sequence of strings
Concat(parts) ==
    IF parts = <<>> THEN <<>>
    ELSE IF Len(parts) = 1 THEN parts[1]
    ELSE LET half == Len(parts) \div 2
         IN  Concat(SubSeq(parts, 1, half))
               \o Concat(SubSeq(parts, half + 1, Len(parts)))

\* str.replace(/c/g, r) for a one-character pattern c
ReplaceAll(str, c, r) ==
    Concat([i \in 1..Len(str) |-> IF str[i] = c THEN r ELSE <<str[i]>>])

EntAmp == <<"&", "a", "m", "p", ";">>
EntLt == <<"&", "l", "t", ";">>
EntGt == <<"&", "g", "t", ";">>
EntQuot == <<"&", "q", "u", "o", "t", ";">>

U003c == <<"\\", "u", "0", "0", "3", "c">>
U003e == <<"\\", "u", "0", "0", "3", "e">>
U0026 == <<"\\", "u", "0", "0", "2", "6">>

\* An escapeHtml that replaces the ampersand last
EscapeHtmlAmpLast(str) ==
    ReplaceAll(ReplaceAll(ReplaceAll(ReplaceAll(str,
        "<", EntLt), ">", EntGt), "\"", EntQuot), "&", EntAmp)

EscapeHtml(str) ==
    ReplaceAll(ReplaceAll(ReplaceAll(ReplaceAll(str,
        "&", EntAmp), "<", EntLt), ">", EntGt), "\"", EntQuot)

\* JSON.stringify of a string: the quote, the backslash and the control
\* characters are escaped
JsonEscapeChar(c) ==
    CASE c = "\"" -> <<"\\", "\"">>
      [] c = "\\" -> <<"\\", "\\">>
      [] c = "\n" -> <<"\\", "n">>
      [] c = "\t" -> <<"\\", "t">>
      [] OTHER -> <<c>>

JsonEscape(str) == Concat([i \in 1..Len(str) |-> JsonEscapeChar(str[i])])

JsonString(str) == <<"\"">> \o JsonEscape(str) \o <<"\"">>

KeyName == <<"{", "\"", "n", "a", "m", "e", "\"", ":">>
KeyPath == <<",", "\"", "p", "a", "t", "h", "\"", ":">>
KeyType == <<",", "\"", "t", "y", "p", "e", "\"", ":">>
KeyNodeTitle == <<",", "\"", "t", "i", "t", "l", "e", "\"", ":">>
KeyChildren == <<",", "\"", "c", "h", "i", "l", "d", "r", "e", "n", "\"", ":">>
KeyTitle == <<"{", "\"", "t", "i", "t", "l", "e", "\"", ":">>
KeyLayers == <<",", "\"", "l", "a", "y", "e", "r", "s", "\"", ":">>
KeySvgs == <<",", "\"", "s", "v", "g", "s", "\"", ":">>

RECURSIVE JsonNode(_)
RECURSIVE JsonNodeList(_)

\* JSON.stringify of a LayerNode: its properties in creation order
JsonNode(node) ==
    KeyName \o JsonString(node.name)
      \o KeyPath \o JsonString(node.path)
      \o KeyType \o JsonString(node.type)
      \o (IF "title" \in DOMAIN node
          THEN KeyNodeTitle \o JsonString(node.title) ELSE <<>>)
      \o KeyChildren \o <<"[">> \o JsonNodeList(node.children) \o <<"]">>
      \o <<"}">>

JsonNodeList(nodes) ==
    IF nodes = <<>> THEN <<>>
    ELSE JsonNode(Head(nodes))
           \o (IF Len(nodes) > 1 THEN <<",">> ELSE <<>>)
           \o JsonNodeList(Tail(nodes))

RECURSIVE JsonEntries(_)
JsonEntries(entries) ==
    IF entries = <<>> THEN <<>>
    ELSE JsonString(Head(entries).key) \o <<":">> \o JsonString(Head(entries).value)
           \o (IF Len(entries) > 1 THEN <<",">> ELSE <<>>)
           \o JsonEntries(Tail(entries))

\* JSON.stringify(data) of a D2DiagramData
JsonStringify(data) ==
    KeyTitle \o JsonString(data.title)
      \o KeyLayers \o <<"[">> \o JsonNodeList(data.layers) \o <<"]">>
      \o KeySvgs \o <<"{">> \o JsonEntries(data.svgs) \o <<"}">>
      \o <<"}">>

\* An escaping of the payload that leaves the ampersand alone
EscapeDataNoAmp(json) ==
    ReplaceAll(ReplaceAll(json, "<", U003c), ">", U003e)

\* The three replace calls on JSON.stringify(data)
EscapeData(json) ==
    ReplaceAll(ReplaceAll(ReplaceAll(json, "<", U003c), ">", U003e), "&", U0026)

\* The document: the fixed markup of the template literal carries two
\* interpolations, the <title> text and the data block of the script element
GenerateHtml(data) ==
    [titleText |-> EscapeHtml(data.title),
     dataBlock |-> EscapeData(JsonStringify(data))]

\* svgs[key] = value on an object whose properties are listed in creation
\* order: an existing property keeps its place
SetProperty(entries, key, value) ==
    IF \E i \in 1..Len(entries) : entries[i].key = key
    THEN [i \in 1..Len(entries) |->
             IF entries[i].key = key THEN [key |-> key, value |-> value]
             ELSE entries[i]]
    ELSE Append(entries, [key |-> key, value |-> value])

-----------------------------------------------------------------------------
(* scripts/prerender.ts: main, and the handler of its rejection *)

RECURSIVE HasNoNullNoStep(_)
HasNoNullNoStep(b) ==
    /\ b # NullBoard
    /\ b.steps = <<>>
    /\ \A i \in 1..Len(b.layers) : HasNoNullNoStep(b.layers[i])
    /\ \A i \in 1..Len(b.scenarios) : HasNoNullNoStep(b.scenarios[i])

\* The diagrams the compiler returns in the export runs: layers and scenarios,
\* no null entry
ExportDiagrams == {d \in DiagramsUpTo(MaxExportNodes) : HasNoNullNoStep(d)}

\* values.title ?? basename(inputPath, ".d2")
TitleGiven == <<"<", "b", ">">>
ExportTitles == {SegMainStem, TitleGiven}

SvgWithWidth ==
    <<"<", "s", "v", "g", " ", "w", "i", "d", "t", "h", "=", "\"", "7", "\"",
      ">", "<", "/", "s", "v", "g", ">">>
SvgViewBoxTag ==
    <<"<", "s", "v", "g", " ", "v", "i", "e", "w", "B", "o", "x", "=", "\"",
      "0", " ", "0", " ", "9", " ", "5", "\"", ">">>
SvgEnd == <<"<", "/", "s", "v", "g", ">">>

\* What d2.render resolves with: the renderer is a function of the diagram and
\* the target; the image of a board shows the target it was asked for
RenderedSvg(target) ==
    IF target = <<>> THEN SvgWithWidth
    ELSE SvgViewBoxTag \o target \o SvgEnd

\* An external call: result is "pending" until the call returns, then "ok" or
\* "failed"
Call(op, arg, result) == [op |-> op, arg |-> arg, result |-> result]
ReadCall(path, ok) == Call("read", path, IF ok THEN "ok" ELSE "failed")
\* inputPath: inputBasename
CompileArg == <<Basename(inputPath)>>

\* The last call returns
Returned(log, result) == [log EXCEPT ![Len(log)].result = result]

\* The error a failed call rejects with; at is the number of the call
ErrorOf(kind, at) == [kind |-> kind, at |-> at]

\* console.error(prefix, error) / console.error("Error:", error.message)
ErrLine(prefix, err) == [prefix |-> prefix, error |-> err]

\* const fsMap = await buildFileSystem(inputPath)
ResolveImports ==
    /\ pc = "start"
    /\ LET built == BuildFileSystem(inputPath, disk)
       IN  /\ fsMap' = built.fs
           /\ warnings' = built.warnings
           /\ calls' = [i \in 1..Len(built.reads) |->
                           ReadCall(built.reads[i], CanRead(disk, built.reads[i]))]
    /\ pc' = "resolved"
    /\ UNCHANGED <<interactive, plugin, normalizer, disk, title, diagram, layers, targets, svgs, next,
                   error, output, stderr, exitCode>>

\* d2.compile({fs: fsMap, inputPath: inputBasename, options}) is called
CompileStart ==
    /\ pc = "resolved"
    /\ calls' = Append(calls, Call("compile", CompileArg, "pending"))
    /\ pc' = "compiling"
    /\ UNCHANGED <<interactive, plugin, normalizer, disk, title, fsMap, warnings, diagram, layers, targets,
                   svgs, next, error, output, stderr, exitCode>>

\* The compiler resolves; it compiles the text it was given under inputPath
CompileOk ==
    /\ pc = "compiling"
    /\ CompileArg \in DOMAIN fsMap
    /\ \E d \in ExportDiagrams : diagram' = d
    /\ calls' = Returned(calls, "ok")
    /\ pc' = "compiled"
    /\ UNCHANGED <<interactive, plugin, normalizer, disk, title, fsMap, warnings, layers, targets, svgs, next,
                   error, output, stderr, exitCode>>

\* The compiler rejects: the catch logs and rethrows
CompileThrow ==
    /\ pc = "compiling"
    /\ calls' = Returned(calls, "failed")
    /\ error' = ErrorOf("compile", Len(calls))
    /\ stderr' = Append(stderr, ErrLine("Compilation error:", error'))
    /\ pc' = "failed"
    /\ UNCHANGED <<interactive, plugin, normalizer, disk, title, fsMap, warnings, diagram, layers, targets,
                   svgs, next, output, exitCode>>

\* d2.render(diagram, {target: ""}) is called
RenderRootStart ==
    /\ pc = "flattened"
    /\ calls' = Append(calls, Call("render", <<>>, "pending"))
    /\ pc' = "renderingRoot"
    /\ UNCHANGED <<interactive, plugin, normalizer, disk, title, fsMap, warnings, diagram, layers, targets,
                   svgs, next, error, output, stderr, exitCode>>

RenderRootOk ==
    /\ pc = "renderingRoot"
    /\ svgs' = SetProperty(svgs, <<>>, EnsureSvgDimensions(RenderedSvg(<<>>)))
    /\ calls' = Returned(calls, "ok")
    /\ next' = 1
    /\ pc' = "targets"
    /\ UNCHANGED <<interactive, plugin, normalizer, disk, title, fsMap, warnings, diagram, layers, targets,
                   error, output, stderr, exitCode>>

RenderRootThrow ==
    /\ pc = "renderingRoot"
    /\ calls' = Returned(calls, "failed")
    /\ error' = ErrorOf("render", Len(calls))
    /\ stderr' = Append(stderr, ErrLine("Error rendering root:", error'))
    /\ pc' = "failed"
    /\ UNCHANGED <<interactive, plugin, normalizer, disk, title, fsMap, warnings, diagram, layers, targets,
                   svgs, next, output, exitCode>>

\* A loop that starts the render of a target and moves on without awaiting it
RenderTargetStartUnawaited ==
    /\ pc = "targets"
    /\ next <= Len(targets)
    /\ calls' = Append(calls, Call("render", targets[next], "pending"))
    /\ next' = next + 1
    /\ UNCHANGED <<interactive, plugin, normalizer, pc, disk, title, fsMap, warnings, diagram, layers, targets,
                   svgs, error, output, stderr, exitCode>>

\* for (const target of targets): d2.render(diagram, {target}) is called
RenderTargetStart ==
    /\ pc = "targets"
    /\ next <= Len(targets)
    /\ calls' = Append(calls, Call("render", targets[next], "pending"))
    /\ pc' = "renderingTarget"
    /\ UNCHANGED <<interactive, plugin, normalizer, disk, title, fsMap, warnings, diagram, layers, targets,
                   svgs, next, error, output, stderr, exitCode>>

RenderTargetOk ==
    /\ pc = "renderingTarget"
    /\ svgs' = SetProperty(svgs, targets[next],
                           EnsureSvgDimensions(RenderedSvg(targets[next])))
    /\ calls' = Returned(calls, "ok")
    /\ next' = next + 1
    /\ pc' = "targets"
    /\ UNCHANGED <<interactive, plugin, normalizer, disk, title, fsMap, warnings, diagram, layers, targets,
                   error, output, stderr, exitCode>>

\* A catch that logs the failed render and goes on with the next target
RenderTargetThrowSwallowed ==
    /\ pc = "renderingTarget"
    /\ calls' = Returned(calls, "failed")
    /\ stderr' = Append(stderr, ErrLine("Error rendering target:",
                                        ErrorOf("render", Len(calls))))
    /\ next' = next + 1
    /\ pc' = "targets"
    /\ UNCHANGED <<interactive, plugin, normalizer, disk, title, fsMap, warnings, diagram, layers, targets,
                   svgs, error, output, exitCode>>

RenderTargetThrow ==
    /\ pc = "renderingTarget"
    /\ calls' = Returned(calls, "failed")
    /\ error' = ErrorOf("render", Len(calls))
    /\ stderr' = Append(stderr, ErrLine("Error rendering target:", error'))
    /\ pc' = "failed"
    /\ UNCHANGED <<interactive, plugin, normalizer, disk, title, fsMap, warnings, diagram, layers, targets,
                   svgs, next, output, exitCode>>

\* await writeFile(outputPath, generateHtml(data)) resolves
WriteOutput ==
    /\ pc = "targets"
    /\ next > Len(targets)
    /\ calls' = Append(calls, Call("write", <<>>, "ok"))
    /\ output' = [written |-> TRUE,
                  html |-> GenerateHtml([title |-> title, layers |-> layers,
                                         svgs |-> svgs])]
    /\ pc' = "done"
    /\ UNCHANGED <<interactive, plugin, normalizer, disk, title, fsMap, warnings, diagram, layers, targets,
                   svgs, next, error, stderr, exitCode>>

\* writeFile rejects (the output directory is missing)
WriteThrow ==
    /\ pc = "targets"
    /\ next > Len(targets)
    /\ calls' = Append(calls, Call("write", <<>>, "failed"))
    /\ error' = ErrorOf("write", Len(calls'))
    /\ pc' = "failed"
    /\ UNCHANGED <<interactive, plugin, normalizer, disk, title, fsMap, warnings, diagram, layers, targets,
                   svgs, next, output, stderr, exitCode>>

\* main() resolved: the process ends with nothing left to run
ExitOk ==
    /\ pc = "done"
    /\ exitCode' = 0
    /\ pc' = "exited"
    /\ UNCHANGED <<interactive, plugin, normalizer, disk, title, fsMap, warnings, diagram, layers, targets,
                   svgs, next, calls, error, output, stderr>>

\* A rejection handler that prints the message and lets the process end
ExitErrorNoExit ==
    /\ pc = "failed"
    /\ stderr' = Append(stderr, ErrLine("Error:", error))
    /\ exitCode' = 0
    /\ pc' = "exited"
    /\ UNCHANGED <<interactive, plugin, normalizer, disk, title, fsMap, warnings, diagram, layers, targets,
                   svgs, next, calls, error, output>>

\* main().catch: console.error("Error:", error.message); process.exit(1)
ExitError ==
    /\ pc = "failed"
    /\ stderr' = Append(stderr, ErrLine("Error:", error))
    /\ exitCode' = 1
    /\ pc' = "exited"
    /\ UNCHANGED <<interactive, plugin, normalizer, disk, title, fsMap, warnings, diagram, layers, targets,
                   svgs, next, calls, error, output>>

Init ==
    /\ pc = "start"
    /\ disk \in Disks
    /\ title \in ExportTitles
    /\ fsMap = <<>>
    /\ warnings = <<>>
    /\ diagram = NoDiagram
    /\ layers = <<>>
    /\ targets = <<>>
    /\ svgs = <<>>
    /\ next = 1
    /\ calls = <<>>
    /\ error = NoError
    /\ output = NoFile
    /\ stderr = <<>>
    /\ exitCode = Running
    /\ queue = <<>>
    /\ seen = {}
    /\ failed = {}
    /\ rawSvg = <<>>
    /\ sized = <<>>
    /\ InteractiveIdle

Next ==
    \/ ResolveImports
    \/ CompileStart
    \/ CompileOk
    \/ CompileThrow
    \/ ExtractStep
    \/ FlattenStep
    \/ RenderRootStart
    \/ RenderRootOk
    \/ RenderRootThrow
    \/ RenderTargetStart
    \/ RenderTargetOk
    \/ RenderTargetThrow
    \/ WriteOutput
    \/ WriteThrow
    \/ ExitOk
    \/ ExitError

Spec == Init /\ [][Next]_vars

-----------------------------------------------------------------------------
(* generateHtml applied to a title, a forest and an image mapping           *)
(* (scripts/prerender.ts line 277)                                          *)

TitleChars == {"<", ">", "&", "\"", "\\", "a"}

TitleScript == <<"<", "s", "c", "r", "i", "p", "t", ">">>

HtmlTitles ==
    UNION {[1..k -> TitleChars] : k \in 0..MaxTitleLen} \cup {TitleScript}

\* Rendered images: one with markup characters only, one as the renderer
\* returns it for the root
HtmlImages == {<<"<", "&", ">">>, SvgWithWidth}

GenerateStep ==
    /\ pc = "data"
    /\ output' = [written |-> FALSE,
                  html |-> GenerateHtml([title |-> title, layers |-> layers,
                                         svgs |-> svgs])]
    /\ pc' = "generated"
    /\ UNCHANGED <<interactive, plugin, normalizer, disk, title, fsMap, warnings, diagram, layers, targets,
                   svgs, next, calls, error, stderr, exitCode>>

InitHtml ==
    /\ pc = "data"
    /\ title \in HtmlTitles
    /\ diagram \in DiagramsUpTo(1)
    /\ layers = ExtractLayers(diagram, <<>>)
    /\ targets = FlattenTargets(layers)
    /\ \E image \in HtmlImages : svgs = SetProperty(<<>>, <<>>, image)
    /\ disk = <<>>
    /\ fsMap = <<>>
    /\ warnings = <<>>
    /\ next = 1
    /\ calls = <<>>
    /\ error = NoError
    /\ output = NoFile
    /\ stderr = <<>>
    /\ exitCode = Running
    /\ queue = <<>>
    /\ seen = {}
    /\ failed = {}
    /\ rawSvg = <<>>
    /\ sized = <<>>
    /\ InteractiveIdle

NextHtml == GenerateStep

SpecHtml == InitHtml /\ [][NextHtml]_vars

-----------------------------------------------------------------------------
(* src/vite-plugin-d2.ts: parseD2Imports, loadFileWithImports               *)
(*                                                                          *)
(* The paths of the plugin are relative to the watch directory; they are    *)
(* sequences of segments too, "." and ".." included, and a leading "/" is   *)
(* an empty first segment.                                                  *)

SegEmpty == <<>>
SegX == <<"x">>
SegXd2 == <<"x", ".", "d", "2">>

\* options.watchDir, and the path of the load-file message
watchDir == <<SegProj>>
entryPath == <<SegMain>>

RECURSIVE NormalizeRelOnto(_, _)
\* path.normalize of a relative path: "." and empty segments are dropped,
\* ".." removes the segment before it unless there is none or it is ".."
NormalizeRelOnto(done, segs) ==
    IF segs = <<>> THEN done
    ELSE LET seg == Head(segs)
         IN  IF seg = SegHere \/ seg = SegEmpty
             THEN NormalizeRelOnto(done, Tail(segs))
             ELSE IF seg = SegUp /\ done # <<>> /\ done[Len(done)] # SegUp
                  THEN NormalizeRelOnto(SubSeq(done, 1, Len(done) - 1),
                                        Tail(segs))
                  ELSE NormalizeRelOnto(Append(done, seg), Tail(segs))

\* join(currentDir, importPath) of relative paths
JoinRel(dir, ref) ==
    LET joined == NormalizeRelOnto(<<>>, dir \o ref)
    IN  IF joined = <<>> THEN <<SegHere>> ELSE joined

\* dirname(normalizedPath) of a relative path
DirnameRel(p) == IF Len(p) <= 1 THEN <<SegHere>> ELSE SubSeq(p, 1, Len(p) - 1)

\* resolve(watchDir, normalizedPath)
ResolveIn(dir, p) == NormalizeOnto(<<>>, dir \o p)

\* item.path.startsWith("/") ? item.path.slice(1) : item.path
StripSlash(p) == IF p # <<>> /\ Head(p) = SegEmpty THEN Tail(p) ELSE p

RECURSIVE ParseD2Imports(_)
\* The match[1] of every match of /(?:\.\.\.@|:\s*@)([\w\-\/\.]+)/g, with
\* the .d2 extension added when missing: the spread and the named imports
ParseD2Imports(content) ==
    IF content = <<>> THEN <<>>
    ELSE IF Head(content).kind \in {"spread", "named"}
    THEN <<WithD2(Head(content).ref)>> \o ParseD2Imports(Tail(content))
    ELSE ParseD2Imports(Tail(content))

Item(path, alternatives) == [path |-> path, alternatives |-> alternatives]

RECURSIVE QueueImportsFromRoot(_, _, _, _, _)
\* A loop that takes every reference as relative to the watch directory
QueueImportsFromRoot(imports, currentDir, q, seenNow, failedNow) ==
    IF imports = <<>> THEN q
    ELSE LET importPath == Head(imports)
             pushed == IF importPath \notin seenNow /\ importPath \notin failedNow
                       THEN Append(q, Item(importPath, <<>>))
                       ELSE q
         IN  QueueImportsFromRoot(Tail(imports), currentDir, pushed, seenNow,
                                  failedNow)

RECURSIVE QueueImports(_, _, _, _, _)
\* for (const importPath of imports) { ... queue.push(...) }; an absent
\* alternatives field is the empty sequence
QueueImports(imports, currentDir, q, seenNow, failedNow) ==
    IF imports = <<>> THEN q
    ELSE LET importPath == Head(imports)
             resolvedImport == IF currentDir = <<SegHere>> THEN importPath
                               ELSE JoinRel(currentDir, importPath)
             alternatives == IF resolvedImport # importPath
                             THEN <<importPath>> ELSE <<>>
             pushed == IF resolvedImport \notin seenNow
                          /\ resolvedImport \notin failedNow
                       THEN Append(q, Item(resolvedImport, alternatives))
                       ELSE q
         IN  QueueImports(Tail(imports), currentDir, pushed, seenNow, failedNow)

\* The texts of the entry file: up to MaxRefs of these tokens.  ./a is
\* another spelling of a; ../../proj/main is the entry itself, spelled
\* through the root of the file system; sub/x names no file
EntryTokens ==
    {Spread(<<SegA>>), Spread(<<SegHere, SegA>>), Named(<<SegSub, SegA>>),
     Spread(<<SegSub, SegX>>), Spread(<<SegMainStem>>),
     Spread(<<SegUp, SegUp, SegProj, SegMainStem>>), Mention(<<SegX>>)}

EntryTexts == UNION {[1..k -> EntryTokens] : k \in 0..MaxRefs}

\* The other files, each present or not: a.d2 names the entry back; sub/a.d2
\* spreads x (sub/x.d2 does not exist, x.d2 may) and names its neighbour b;
\* sub/b.d2 spreads ../a
DiskA == (<<SegProj, SegAd2>> :> File(<<Named(<<SegMainStem>>)>>))
DiskSub ==
    (<<SegProj, SegSub, SegAd2>> :>
        File(<<Spread(<<SegX>>), Named(<<SegB>>)>>))
    @@ (<<SegProj, SegSub, SegBd2>> :> File(<<Spread(<<SegUp, SegA>>)>>))
DiskX == (<<SegProj, SegXd2>> :> File(<<Text>>))

ImportDisks ==
    { (<<SegProj, SegMain>> :> File(text))
        @@ (IF hasA THEN DiskA ELSE <<>>)
        @@ (IF hasSub THEN DiskSub ELSE <<>>)
        @@ (IF hasX THEN DiskX ELSE <<>>) :
      text \in EntryTexts, hasA \in BOOLEAN, hasSub \in BOOLEAN,
      hasX \in BOOLEAN }

\* const queue = [{ path: entryPath }]; seen and failed start empty
LoadStart ==
    /\ pc = "start"
    /\ queue' = <<Item(entryPath, <<>>)>>
    /\ seen' = {}
    /\ failed' = {}
    /\ pc' = "loading"
    /\ UNCHANGED <<interactive, normalizer, disk, title, fsMap, warnings, diagram, layers,
                   targets, svgs, next, calls, error, output, stderr, exitCode>>

\* One turn of the while loop: the item's path was seen or has failed
LoadSkip ==
    /\ pc = "loading"
    /\ queue # <<>>
    /\ StripSlash(Head(queue).path) \in seen \cup failed
    /\ queue' = Tail(queue)
    /\ UNCHANGED <<interactive, normalizer, pc, seen, failed, disk, title, fsMap, warnings,
                   diagram, layers, targets, svgs, next, calls, error, output,
                   stderr, exitCode>>

\* One turn of the while loop: the file is read, stored, and its imports are
\* queued
LoadRead ==
    /\ pc = "loading"
    /\ queue # <<>>
    /\ \E normalizedPath \in {StripSlash(Head(queue).path)} :
       \E absolutePath \in {ResolveIn(watchDir, normalizedPath)} :
          /\ normalizedPath \notin seen \cup failed
          /\ CanRead(disk, absolutePath)
          /\ \E imports \in {ParseD2Imports(disk[absolutePath].content)} :
             \E queued \in {QueueImports(imports, DirnameRel(normalizedPath),
                                         Tail(queue),
                                         seen \cup {normalizedPath}, failed)} :
                /\ \A i \in 1..Len(queued) :
                      Len(queued[i].path) <= MaxPathSegs
                /\ queue' = queued
                /\ fsMap' = (normalizedPath :> disk[absolutePath].content)
                               @@ fsMap
                /\ seen' = seen \cup {normalizedPath}
                /\ calls' = Append(calls, ReadCall(absolutePath, TRUE))
    /\ UNCHANGED <<interactive, normalizer, pc, failed, disk, title, warnings, diagram,
                   layers, targets, svgs, next, error, output, stderr,
                   exitCode>>

\* A catch block that gives the whole resolution up
LoadFailAbort ==
    /\ pc = "loading"
    /\ queue # <<>>
    /\ \E normalizedPath \in {StripSlash(Head(queue).path)} :
       \E absolutePath \in {ResolveIn(watchDir, normalizedPath)} :
          /\ normalizedPath \notin seen \cup failed
          /\ ~CanRead(disk, absolutePath)
          /\ failed' = failed \cup {normalizedPath}
          /\ queue' = <<>>
          /\ calls' = Append(calls, ReadCall(absolutePath, FALSE))
    /\ UNCHANGED <<interactive, normalizer, pc, seen, disk, title, fsMap, warnings, diagram,
                   layers, targets, svgs, next, error, output, stderr,
                   exitCode>>

\* One turn of the while loop: the read throws; the first alternative, if
\* any, goes to the front of the queue
LoadFail ==
    /\ pc = "loading"
    /\ queue # <<>>
    /\ \E item \in {Head(queue)} :
       \E normalizedPath \in {StripSlash(item.path)} :
       \E absolutePath \in {ResolveIn(watchDir, normalizedPath)} :
          /\ normalizedPath \notin seen \cup failed
          /\ ~CanRead(disk, absolutePath)
          /\ failed' = failed \cup {normalizedPath}
          /\ queue' = IF item.alternatives # <<>>
                      THEN <<Item(Head(item.alternatives),
                                  Tail(item.alternatives))>> \o Tail(queue)
                      ELSE Tail(queue)
          /\ calls' = Append(calls, ReadCall(absolutePath, FALSE))
    /\ UNCHANGED <<interactive, normalizer, pc, seen, disk, title, fsMap, warnings, diagram,
                   layers, targets, svgs, next, error, output, stderr,
                   exitCode>>

\* The queue is empty: return fs
LoadReturn ==
    /\ pc = "loading"
    /\ queue = <<>>
    /\ pc' = "loaded"
    /\ UNCHANGED <<interactive, normalizer, plugin, disk, title, fsMap, warnings, diagram,
                   layers, targets, svgs, next, calls, error, output, stderr,
                   exitCode>>

\* Both resolvers, each run on its own from the same files
InitImports ==
    /\ pc = "start"
    /\ disk \in ImportDisks
    /\ title = <<>>
    /\ fsMap = <<>>
    /\ warnings = <<>>
    /\ diagram = NoDiagram
    /\ layers = <<>>
    /\ targets = <<>>
    /\ svgs = <<>>
    /\ next = 1
    /\ calls = <<>>
    /\ error = NoError
    /\ output = NoFile
    /\ stderr = <<>>
    /\ exitCode = Running
    /\ queue = <<>>
    /\ seen = {}
    /\ failed = {}
    /\ rawSvg = <<>>
    /\ sized = <<>>
    /\ InteractiveIdle

NextImports ==
    \/ ResolveImports
    \/ LoadStart
    \/ LoadSkip
    \/ LoadRead
    \/ LoadFail
    \/ LoadReturn

SpecImports == InitImports /\ [][NextImports]_vars

\* A turn of the while loop of loadFileWithImports (each one awaits a read,
\* which settles)
LoadTurn == LoadStart \/ LoadSkip \/ LoadRead \/ LoadFail \/ LoadReturn

\* The loop keeps turning while it can; buildFileSystem is one step
SpecImportsLive == SpecImports /\ WF_vars(LoadTurn)

-----------------------------------------------------------------------------
(* ensureSvgDimensions applied to an image string, and to its own result    *)
(* (scripts/prerender.ts lines 248 and 262, then src/embed-viewer.tsx line  *)
(* 442 on the exported images)                                              *)

\* Attributes of an outer tag
ViewBox120x80 ==
    <<"v", "i", "e", "w", "B", "o", "x", "=", "\"", "0", " ", "0", " ",
      "1", "2", "0", " ", "8", "0", "\"">>
ViewBoxLeadingSpace ==
    <<"v", "i", "e", "w", "B", "o", "x", "=", "\"", " ", "0", " ", "0",
      " ", "1", "2", "0", " ", "8", "0", "\"">>
ViewBoxThree ==
    <<"v", "i", "e", "w", "B", "o", "x", "=", "'", "0", " ", "0", " ", "9",
      "'">>
Width7 ==
    <<"w", "i", "d", "t", "h", "=", "\"", "7", "\"">>
Height3 ==
    <<"h", "e", "i", "g", "h", "t", "=", "\"", "3", "\"">>
StrokeWidth2 ==
    <<"s", "t", "r", "o", "k", "e", "-", "w", "i", "d", "t", "h", "=",
      "\"", "2", "\"">>
DollarAfter ==
    <<"t", "=", "\"", "$", "'", "\"">>
DollarDollar ==
    <<"t", "=", "\"", "$", "$", "\"">>

TagAttrs ==
    {ViewBox120x80, ViewBoxLeadingSpace, ViewBoxThree, Width7, Height3,
     StrokeWidth2, DollarAfter, DollarDollar}

GroupOpen ==
    <<"<", "g">>
GroupTag ==
    <<"<", "g", ">">>

\* The image strings: a tag name, up to MaxAttrs attributes each after one
\* space, the closing angle bracket or none, and what follows the tag
RawSvgs ==
    { name \o Concat([i \in 1..Len(attrs) |-> <<" ">> \o attrs[i]])
           \o close \o rest :
      name \in {SvgOpen, GroupOpen},
      attrs \in UNION {[1..k -> TagAttrs] : k \in 0..MaxAttrs},
      close \in {<<">">>, <<>>},
      rest \in {<<>>, GroupTag} }

\* ensureSvgDimensions(svg), then ensureSvgDimensions of the result
EnsureStep ==
    /\ pc = "image"
    /\ Len(sized) < 2
    /\ sized' = Append(sized,
                       EnsureSvgDimensions(IF sized = <<>> THEN rawSvg
                                           ELSE sized[Len(sized)]))
    /\ UNCHANGED <<interactive, plugin, rawSvg, pc, disk, title, fsMap, warnings, diagram,
                   layers, targets, svgs, next, calls, error, output, stderr,
                   exitCode>>

InitSvg ==
    /\ pc = "image"
    /\ rawSvg \in RawSvgs
    /\ sized = <<>>
    /\ InteractiveIdle
    /\ disk = <<>>
    /\ title = <<>>
    /\ fsMap = <<>>
    /\ warnings = <<>>
    /\ diagram = NoDiagram
    /\ layers = <<>>
    /\ targets = <<>>
    /\ svgs = <<>>
    /\ next = 1
    /\ calls = <<>>
    /\ error = NoError
    /\ output = NoFile
    /\ stderr = <<>>
    /\ exitCode = Running
    /\ queue = <<>>
    /\ seen = {}
    /\ failed = {}

NextSvg == EnsureStep

SpecSvg == InitSvg /\ [][NextSvg]_vars

-----------------------------------------------------------------------------
(* src/vite-plugin-d2.ts: d2WatchPlugin, the live-reload server             *)

RECURSIVE LoadLoop(_, _, _, _, _)
\* The while loop of loadFileWithImports, run to its end on the files of dsk
LoadLoop(q, seenNow, failedNow, fs, dsk) ==
    IF q = <<>> THEN fs
    ELSE LET item == Head(q)
             normalizedPath == StripSlash(item.path)
             absolutePath == ResolveIn(watchDir, normalizedPath)
         IN  IF normalizedPath \in seenNow \cup failedNow
             THEN LoadLoop(Tail(q), seenNow, failedNow, fs, dsk)
             ELSE IF CanRead(dsk, absolutePath)
             THEN LET content == dsk[absolutePath].content
                      seenNext == seenNow \cup {normalizedPath}
                  IN  LoadLoop(QueueImports(ParseD2Imports(content),
                                            DirnameRel(normalizedPath),
                                            Tail(q), seenNext, failedNow),
                               seenNext, failedNow,
                               (normalizedPath :> content) @@ fs, dsk)
             ELSE LoadLoop(IF item.alternatives # <<>>
                           THEN <<Item(Head(item.alternatives),
                                       Tail(item.alternatives))>> \o Tail(q)
                           ELSE Tail(q),
                           seenNow, failedNow \cup {normalizedPath}, fs, dsk)

LoadFileWithImports(path, dsk) == LoadLoop(<<Item(path, <<>>)>>, {}, {}, <<>>, dsk)

\* The paths a client asks for: main.d2 and /main.d2
LoadPaths == {<<SegMain>>, <<SegEmpty, SegMain>>}

\* The watched files, as paths relative to the watch directory
WatchedPaths == {<<SegMain>>, <<SegAd2>>}

\* The files under the watch directory, each present or not while the
\* server is observed: main.d2 spreads a.d2, which names main back
ServerDisks ==
    { [p \in {watchDir \o w : w \in present} |->
          File(IF p = watchDir \o <<SegMain>> THEN <<Spread(<<SegA>>)>>
               ELSE <<Named(<<SegMainStem>>)>>)] :
      present \in SUBSET WatchedPaths }

Message(to, type, path, fs, content) ==
    [to |-> to, type |-> type, path |-> path, fs |-> fs, content |-> content]

OpenConns(cs) == {c \in 1..Len(cs) : cs[c] = "open"}

RECURSIVE InOrder(_)
\* The members of a set of numbers, ascending: the order of insertion of the
\* clients set
InOrder(S) ==
    IF S = {} THEN <<>>
    ELSE LET least == CHOOSE x \in S : \A y \in S : x <= y
         IN  <<least>> \o InOrder(S \ {least})

\* A broadcast that does not test readyState
BroadcastToAll(type, path) ==
    LET to == InOrder(clients)
    IN  [i \in 1..Len(to) |-> Message(to[i], type, path, <<>>, <<>>)]

\* broadcast(data): the messages it sends
Broadcast(type, path) ==
    LET to == InOrder(clients \cap OpenConns(conns))
    IN  [i \in 1..Len(to) |-> Message(to[i], type, path, <<>>, <<>>)]

\* What a handler run dealt with, and the sockets that were open then
Input(kind, from, path) ==
    [kind |-> kind, from |-> from, path |-> path, open |-> OpenConns(conns)]

\* ws.send(JSON.stringify({type: "file", ...})): a socket that is no longer
\* open transmits nothing
Reply(from, path, fs, content) ==
    IF conns[from] = "open" THEN <<Message(from, "file", path, fs, content)>>
    ELSE <<>>

\* wss.on("connection")
Connect ==
    /\ pc = "serving"
    /\ Len(conns) < MaxClients
    /\ conns' = Append(conns, "open")
    /\ clients' = clients \cup {Len(conns) + 1}
    /\ UNCHANGED <<pc, batch, service, embed, cli, viewer, session, inbox, wire, events>>

\* The socket leaves the OPEN state; its close event is yet to come
SocketClosing ==
    /\ pc = "serving"
    /\ \E c \in OpenConns(conns) : conns' = [conns EXCEPT ![c] = "closing"]
    /\ UNCHANGED <<pc, batch, service, embed, cli, viewer, session, clients, inbox, wire, events>>

\* ws.on("close")
SocketClose ==
    /\ pc = "serving"
    /\ \E c \in 1..Len(conns) :
          /\ conns[c] = "closing"
          /\ conns' = [conns EXCEPT ![c] = "closed"]
          /\ clients' = clients \ {c}
    /\ UNCHANGED <<pc, batch, service, embed, cli, viewer, session, inbox, wire, events>>

\* ws.on("message") with a load message, up to await loadFileWithImports
LoadReceive ==
    /\ pc = "serving"
    /\ BagCardinality(inbox) < MaxMessages
    /\ \E c \in OpenConns(conns), path \in LoadPaths :
          /\ inbox' = inbox (+) SetToBag({[from |-> c, path |-> path]})
          /\ events' = Input("load", c, path)
    /\ wire' = <<>>
    /\ UNCHANGED <<pc, batch, service, embed, cli, viewer, session, conns, clients>>

\* ws.on("message") with a list message: nothing is done
ListReceive ==
    /\ pc = "serving"
    /\ \E c \in OpenConns(conns) : events' = Input("list", c, <<>>)
    /\ wire' = <<>>
    /\ UNCHANGED <<pc, batch, service, embed, cli, viewer, session, conns, clients, inbox>>

\* ws.on("message") with a load message, from the resolved file set on
LoadReply ==
    /\ pc = "serving"
    /\ \E msg \in BagToSet(inbox) :
       \E fs \in {LoadFileWithImports(msg.path, disk)} :
          /\ wire' = Reply(msg.from, msg.path, fs,
                           IF msg.path \in DOMAIN fs THEN fs[msg.path]
                           ELSE <<>>)
          /\ events' = Input("file", msg.from, msg.path)
          /\ inbox' = inbox (-) SetToBag({msg})
    /\ UNCHANGED <<pc, batch, service, embed, cli, viewer, session, conns, clients>>

\* watcher.on("change")
WatchChange ==
    /\ pc = "serving"
    /\ \E w \in WatchedPaths :
          /\ events' = Input("change", 0, w)
          /\ wire' = Broadcast("change", w)
    /\ UNCHANGED <<pc, batch, service, embed, cli, viewer, session, conns, clients, inbox>>

\* watcher.on("add")
WatchAdd ==
    /\ pc = "serving"
    /\ \E w \in WatchedPaths :
          /\ events' = Input("add", 0, w)
          /\ wire' = Broadcast("add", w)
    /\ UNCHANGED <<pc, batch, service, embed, cli, viewer, session, conns, clients, inbox>>

\* watcher.on("unlink")
WatchUnlink ==
    /\ pc = "serving"
    /\ \E w \in WatchedPaths :
          /\ events' = Input("unlink", 0, w)
          /\ wire' = Broadcast("remove", w)
    /\ UNCHANGED <<pc, batch, service, embed, cli, viewer, session, conns, clients, inbox>>

\* configureServer has run: the server listens, nobody is connected
InitServer ==
    /\ pc = "serving"
    /\ disk \in ServerDisks
    /\ title = <<>>
    /\ fsMap = <<>>
    /\ warnings = <<>>
    /\ diagram = NoDiagram
    /\ layers = <<>>
    /\ targets = <<>>
    /\ svgs = <<>>
    /\ next = 1
    /\ calls = <<>>
    /\ error = NoError
    /\ output = NoFile
    /\ stderr = <<>>
    /\ exitCode = Running
    /\ queue = <<>>
    /\ seen = {}
    /\ failed = {}
    /\ rawSvg = <<>>
    /\ sized = <<>>
    /\ ServiceIdle
    /\ ServerIdle
    /\ EmbedIdle
    /\ CliIdle
    /\ ViewerIdle
    /\ SessionIdle

NextServer ==
    \/ Connect
    \/ SocketClosing
    \/ SocketClose
    \/ LoadReceive
    \/ ListReceive
    \/ LoadReply
    \/ WatchChange
    \/ WatchAdd
    \/ WatchUnlink

SpecServer == InitServer /\ [][NextServer]_vars

-----------------------------------------------------------------------------
(* scripts/prerender.ts: inputPath, outputPath, and the write of main       *)
(*                                                                          *)
(* Here a path is a string, character by character.                         *)

Slash == <<"/">>
Cwd == <<"/", "p", "r", "o", "j">>
DotHtml == <<".", "h", "t", "m", "l">>
DotD2 == <<".", "d", "2">>

NameChars == {"a", ".", "d", "2"}

\* The names of a file in the working directory: . and .. name directories
FileNames ==
    SeqsUpTo(NameChars, MaxNameLen) \ {<<>>, <<".">>, <<".", ".">>}

\* The -o option: absent, empty, or the name o
OutputOptions ==
    {NoOption} \cup {[given |-> TRUE, value |-> v] : v \in {<<>>, <<"o">>}}

\* resolve(name) of a name without slashes, in the working directory
ResolveName(name) == Cwd \o Slash \o name

\* inputPath.replace(/\.d2$/, ".html")
ReplaceD2(path) ==
    IF EndsWith(path, DotD2)
    THEN SubSeq(path, 1, Len(path) - Len(DotD2)) \o DotHtml
    ELSE path

\* const inputPath = ..., const outputPath = ... (an empty -o is falsy)
ParseArgs ==
    /\ pc = "cli"
    /\ \E input \in {ResolveName(args.positional)} :
          paths' = [parsed |-> TRUE,
                    inputPath |-> input,
                    outputPath |-> IF args.output.given
                                      /\ args.output.value # <<>>
                                   THEN ResolveName(args.output.value)
                                   ELSE ReplaceD2(input)]
    /\ pc' = "parsed"
    /\ UNCHANGED <<batch, service, server, embed, viewer, session, args, written>>

\* main, when nothing before the write fails: writeFile(outputPath, ...)
WriteFile ==
    /\ pc = "parsed"
    /\ written' = [written |-> TRUE, path |-> paths.outputPath]
    /\ pc' = "written"
    /\ UNCHANGED <<batch, service, server, embed, viewer, session, args, paths>>

InitCli ==
    /\ pc = "cli"
    /\ BatchIdle
    /\ ServiceIdle
    /\ ServerIdle
    /\ EmbedIdle
    /\ ViewerIdle
    /\ SessionIdle
    /\ args \in { [given |-> TRUE, positional |-> name, output |-> o] :
                  name \in FileNames, o \in OutputOptions }
    /\ paths = NoPaths
    /\ written = NoPath

NextCli == ParseArgs \/ WriteFile

SpecCli == InitCli /\ [][NextCli]_vars

-----------------------------------------------------------------------------
(* src/embed-viewer.tsx: EmbedViewer, and the page's URL fragment           *)

Hash == <<"#">>
Percent20 == <<"%", "2", "0">>

\* The fragment of a URL as the browser keeps it: a space is stored
\* percent-encoded, a percent sequence already there is left as it is
EncodeFragment(s) == ReplaceAll(s, " ", Percent20)

\* The value of window.location.hash for a fragment, and after an assignment
\* of that string to it: empty for an empty fragment, else # and the
\* encoded fragment
LocationHash(fragment) ==
    IF fragment = <<>> THEN <<>> ELSE Hash \o EncodeFragment(fragment)

\* Targets: layers.a, layers.a b (a board name with a space), layers.zz
TargetA == KwLayers \o Dot \o IdA
TargetAB == KwLayers \o Dot \o <<"a", " ", "b">>
TargetZ == KwLayers \o Dot \o <<"z", "z">>

\* A property that every object inherits
Constructor == <<"c", "o", "n", "s", "t", "r", "u", "c", "t", "o", "r">>
InheritedKeys == {Constructor}

\* Whether svgs[key] is truthy: a non-empty image of its own, or an
\* inherited property (a function)
Truthy(svgsNow, key) ==
    IF key \in DOMAIN svgsNow THEN svgsNow[key] # <<>>
    ELSE key \in InheritedKeys

\* The exported data: an image for the root, and for each of the two nodes
\* of the tree or not
EmbedDatas ==
    { [present |-> TRUE,
       layers |-> {TargetA, TargetAB},
       svgs |-> [t \in {<<>>} \cup keys |-> SvgOpen \o t]] :
      keys \in SUBSET {TargetA, TargetAB} } \cup {NoData}

\* What the URL of the document names after the #
Fragments ==
    {<<>>, TargetA, TargetAB, EncodeFragment(TargetAB), TargetZ, Constructor}

\* onMount, and the first run of the effect that writes the target back to
\* the URL
Mount ==
    /\ pc = "opened"
    /\ IF embedData = NoData
       THEN /\ embedError' = TRUE
            /\ currentTarget' = currentTarget
       ELSE /\ embedError' = embedError
            /\ \E fragment \in {SubSeq(hash, 2, Len(hash))} :
                  currentTarget' =
                      IF fragment # <<>> /\ Truthy(embedData.svgs, fragment)
                      THEN fragment ELSE currentTarget
    /\ hash' = LocationHash(currentTarget')
    /\ pc' = "mounted"
    /\ UNCHANGED <<batch, service, server, cli, viewer, session, embedData, named>>

\* handleSelectLayer(node.path) for a node of the tree, and the effect on the
\* URL
SelectLayer ==
    /\ pc \in {"mounted", "browsing"}
    /\ embedData # NoData
    /\ \E path \in embedData.layers :
          /\ currentTarget' = path
          /\ hash' = LocationHash(path)
    /\ pc' = "browsing"
    /\ UNCHANGED <<batch, service, server, cli, viewer, session, embedData, named, embedError>>

\* handleGoToRoot, and the effect on the URL
GoToRoot ==
    /\ pc \in {"mounted", "browsing"}
    /\ embedData # NoData
    /\ currentTarget' = <<>>
    /\ hash' = <<>>
    /\ pc' = "browsing"
    /\ UNCHANGED <<batch, service, server, cli, viewer, session, embedData, named, embedError>>

\* The page is loaded again from its present URL: the signals start afresh
Reload ==
    /\ pc \in {"mounted", "browsing"}
    /\ named' = currentTarget
    /\ currentTarget' = <<>>
    /\ embedError' = FALSE
    /\ pc' = "opened"
    /\ UNCHANGED <<batch, service, server, cli, viewer, session, embedData, hash>>

\* The exported document is opened with a URL
InitEmbed ==
    /\ pc = "opened"
    /\ BatchIdle
    /\ ServiceIdle
    /\ ServerIdle
    /\ CliIdle
    /\ ViewerIdle
    /\ SessionIdle
    /\ embedData \in EmbedDatas
    /\ named \in Fragments
    /\ hash = LocationHash(named)
    /\ currentTarget = <<>>
    /\ embedError = FALSE

NextEmbed == Mount \/ SelectLayer \/ GoToRoot \/ Reload

SpecEmbed == InitEmbed /\ [][NextEmbed]_vars

-----------------------------------------------------------------------------
(* src/d2-service.ts: getD2, compile, render                                *)
(*                                                                          *)
(* The callers share one thread: the body of getD2 has no await and runs    *)
(* to its return in one step; a call is resumed after its await getD2() in  *)
(* a later step, and the external call it then issues completes later yet.  *)

\* A handle that does not cache: every call makes a new one
GetD2Fresh(instance, n) == [d2Instance |-> n + 1, created |-> n + 1]

\* The body of getD2: the handles are numbered in the order of their creation
GetD2(instance, n) ==
    IF instance = NoHandle THEN [d2Instance |-> n + 1, created |-> n + 1]
    ELSE [d2Instance |-> instance, created |-> n]

ServiceCall(op) ==
    /\ pc = "service"
    /\ Len(svcCalls) < MaxCalls
    /\ \E got \in {GetD2(d2Instance, created)} :
          /\ d2Instance' = got.d2Instance
          /\ created' = got.created
          /\ svcCalls' = Append(svcCalls,
                                [op |-> op, at |-> "getD2", d2 |-> got.d2Instance])
    /\ UNCHANGED <<pc, batch, server, embed, cli, viewer, session>>

\* compile(...) up to its await getD2()
CompileCall == ServiceCall("compile")

\* render(...) up to its await getD2()
RenderCall == ServiceCall("render")

\* The call goes on after await getD2() and issues d2.compile / d2.render
ServiceIssue ==
    /\ pc = "service"
    /\ \E i \in 1..Len(svcCalls) :
          /\ svcCalls[i].at = "getD2"
          /\ svcCalls' = [svcCalls EXCEPT ![i].at = "issued"]
    /\ UNCHANGED <<pc, batch, server, embed, cli, viewer, session, d2Instance, created>>

\* The external call resolves and the service function returns
ServiceReturn ==
    /\ pc = "service"
    /\ \E i \in 1..Len(svcCalls) :
          /\ svcCalls[i].at = "issued"
          /\ svcCalls' = [svcCalls EXCEPT ![i].at = "returned"]
    /\ UNCHANGED <<pc, batch, server, embed, cli, viewer, session, d2Instance, created>>

\* The external call rejects and so does the service function
ServiceThrow ==
    /\ pc = "service"
    /\ \E i \in 1..Len(svcCalls) :
          /\ svcCalls[i].at = "issued"
          /\ svcCalls' = [svcCalls EXCEPT ![i].at = "thrown"]
    /\ UNCHANGED <<pc, batch, server, embed, cli, viewer, session, d2Instance, created>>

InitService ==
    /\ pc = "service"
    /\ BatchIdle
    /\ ServiceIdle
    /\ ServerIdle
    /\ EmbedIdle
    /\ CliIdle
    /\ ViewerIdle
    /\ SessionIdle

NextService ==
    CompileCall \/ RenderCall \/ ServiceIssue \/ ServiceReturn \/ ServiceThrow

SpecService == InitService /\ [][NextService]_vars

-----------------------------------------------------------------------------
(* Nodes of a LayerNode forest, addressed by position *)

\* The positions of a forest: <<i>> is the i-th root, p \o <<j>> the j-th
\* child of the node at p
RECURSIVE PositionsOf(_)
PositionsOf(forest) ==
    UNION { {<<i>>} \cup {<<i>> \o p : p \in PositionsOf(forest[i].children)} :
            i \in 1..Len(forest) }

RECURSIVE NodeAt(_, _)
NodeAt(forest, p) ==
    IF Len(p) = 1 THEN forest[p[1]]
    ELSE NodeAt(forest[p[1]].children, Tail(p))

\* p comes before q in a pre-order walk: p is a proper prefix of q, or p
\* branches off to an earlier sibling
PreBefore(p, q) ==
    \/ Len(p) < Len(q) /\ SubSeq(q, 1, Len(p)) = p
    \/ \E i \in 1..Len(p) :
          /\ i <= Len(q)
          /\ SubSeq(p, 1, i - 1) = SubSeq(q, 1, i - 1)
          /\ p[i] < q[i]

PreRank(forest, p) == Cardinality({q \in PositionsOf(forest) : PreBefore(q, p)}) + 1

KeywordOf(type) ==
    IF type = TypeLayer THEN KwLayers
    ELSE IF type = TypeScenario THEN KwScenarios
    ELSE KwSteps

Extracted == pc \in {"extracted", "flattened"}

-----------------------------------------------------------------------------
(* Claims *)

\* C1: in the forest returned by extractLayers no two nodes, at any depth,
\* have the same path.
C1_PathsUnique ==
    Extracted =>
        \A p, q \in PositionsOf(layers) :
            p # q => NodeAt(layers, p).path # NodeAt(layers, q).path

\* C2: a root-level node's path is <collection keyword>.<name> and a nested
\* node's path is <parent path>.<collection keyword>.<name>, so that the
\* scenario timeout under the root layer auth is layers.auth.scenarios.timeout.
C2_PathsCarryKeyword ==
    Extracted =>
        \A p \in PositionsOf(layers) :
            LET node == NodeAt(layers, p)
                own == KeywordOf(node.type) \o Dot \o node.name
            IN  node.path =
                    IF Len(p) = 1 THEN own
                    ELSE NodeAt(layers, SubSeq(p, 1, Len(p) - 1)).path
                             \o Dot \o own

\* C3: flattenTargets lists one path per node of the forest, in pre-order:
\* the k-th entry is the path of the k-th node of a pre-order walk (parents
\* before descendants, siblings in list order).
C3_FlattenIsPreorder ==
    pc = "flattened" =>
        /\ Len(targets) = Cardinality(PositionsOf(layers))
        /\ \A p \in PositionsOf(layers) :
               targets[PreRank(layers, p)] = NodeAt(layers, p).path

\* A flattened forest in which a node with a child is followed by a sibling
C3_Witness ==
    /\ pc = "flattened"
    /\ Len(layers) >= 2
    /\ layers[1].children # <<>>
    /\ Len(targets) = 3

-----------------------------------------------------------------------------
(* The export run, observed through its call log *)

IsPrefix(a, b) == Len(a) <= Len(b) /\ SubSeq(b, 1, Len(a)) = a

\* The calls of a log without their outcome
Issued(log) == [i \in 1..Len(log) |-> <<log[i].op, log[i].arg>>]

CallsOf(ops) == {i \in 1..Len(calls) : calls[i].op \in ops}

FailedCalls(ops) == {i \in CallsOf(ops) : calls[i].result = "failed"}

PendingCalls == {i \in 1..Len(calls) : calls[i].result = "pending"}

NodePaths(forest) == {NodeAt(forest, p).path : p \in PositionsOf(forest)}

\* The calls main makes once import resolution is over, all renders succeeding
CallsAfterResolution ==
    <<<<"compile", CompileArg>>, <<"render", <<>>>>>>
      \o [i \in 1..Len(targets) |-> <<"render", targets[i]>>]
      \o <<<<"write", <<>>>>>>

\* C4: after an export run in which every render succeeded, the mapping
\* written to the output has one entry per rendered target: its keys are the
\* empty path and the path of every node, and each entry holds the image
\* rendered for its target.
C4_OneEntryPerTarget ==
    output.written =>
        /\ Len(svgs) = 1 + Len(targets)
        /\ Len(svgs) = 1 + Cardinality(PositionsOf(layers))
        /\ {svgs[i].key : i \in 1..Len(svgs)} = {<<>>} \cup NodePaths(layers)
        /\ \A i \in 1..Len(svgs) :
               svgs[i].value = EnsureSvgDimensions(RenderedSvg(svgs[i].key))

\* C5: the external calls happen one at a time, in the order: the reads of
\* import resolution, one compile call, the root render, one render call per
\* flattened target in flatten order (then the write); a call is issued only
\* when every earlier call has returned; N targets cause N render calls after
\* the root render.
C5_CallsSequential ==
    LET reads == CallsOf({"read"})
        n == Cardinality(reads)
    IN  /\ reads = 1..n
        /\ IsPrefix(Issued(SubSeq(calls, n + 1, Len(calls))), CallsAfterResolution)
        /\ PendingCalls \subseteq {Len(calls)}
        /\ pc \notin {"start", "resolved", "compiling", "compiled", "extracted",
                      "failed", "exited"}
             => targets = FlattenTargets(ExtractLayers(diagram, <<>>))
        /\ output.written =>
             /\ Cardinality(CallsOf({"compile"})) = 1
             /\ Cardinality(CallsOf({"render"})) = 1 + Len(targets)

\* A finished export of a diagram with two targets and an imported file
C5_Witness ==
    /\ pc = "exited"
    /\ exitCode = 0
    /\ Len(targets) >= 2
    /\ Cardinality(CallsOf({"read"})) >= 2

\* C6: a failed compile or render is the last call of the run: no further
\* call is issued, main rejects with that error, which the rejection handler
\* receives, and no output is written.
C6_AbortOnFirstError ==
    \A i \in FailedCalls({"compile", "render"}) :
        /\ i = Len(calls)
        /\ output = NoFile
        /\ error = ErrorOf(calls[i].op, i)
        /\ pc \in {"failed", "exited"}
        /\ pc = "exited" =>
             /\ exitCode = 1
             /\ stderr[Len(stderr)] = ErrLine("Error:", error)

\* An export that failed on the render of a target after an earlier target
\* had been rendered
C6_Witness ==
    /\ pc = "exited"
    /\ \E i \in FailedCalls({"render"}) : calls[i].arg # <<>>
    /\ Len(svgs) >= 2

C8_EntryReadErrorSurfaced ==
    (pc = "exited" /\ ~CanRead(disk, inputPath)) =>
        /\ exitCode # 0
        /\ error # NoError
        /\ error.kind = "read"
        /\ \A i \in 1..Len(warnings) : warnings[i] # ReadWarning(inputPath)

-----------------------------------------------------------------------------
(* The generated document *)

UnicodeEscapeOf(c) ==
    CASE c = "<" -> U003c
      [] c = ">" -> U003e
      [] c = "&" -> U0026
      [] OTHER -> <<c>>

EntityOf(c) ==
    CASE c = "&" -> EntAmp
      [] c = "<" -> EntLt
      [] c = ">" -> EntGt
      [] c = "\"" -> EntQuot
      [] OTHER -> <<c>>

\* C9: the data block embedded in the document holds no raw <, > or &: it is
\* the JSON text of the data with each of them replaced by its unicode escape
\* and nothing else changed.
C9_DataBlockEscaped ==
    pc = "generated" =>
        LET block == output.html.dataBlock
            json == JsonStringify([title |-> title, layers |-> layers,
                                   svgs |-> svgs])
        IN  /\ \A i \in 1..Len(block) : block[i] \notin {"<", ">", "&"}
            /\ block = Concat([i \in 1..Len(json) |-> UnicodeEscapeOf(json[i])])

\* A document whose title and image hold all three characters
C9_Witness ==
    /\ pc = "generated"
    /\ \A c \in {"<", ">", "&"} : Includes(title, c)
    /\ Includes(svgs[1].value, "&")
    /\ Len(layers) > 0

\* C10: the text put into the <title> element holds no raw <, > or ", every
\* & in it begins one of &amp; &lt; &gt; &quot;, and it is the title with each
\* of the four characters replaced by its entity exactly once.
C10_TitleEscaped ==
    pc = "generated" =>
        LET text == output.html.titleText
        IN  /\ \A i \in 1..Len(text) :
                   /\ text[i] \notin {"<", ">", "\""}
                   /\ text[i] = "&" =>
                        \E ent \in {EntAmp, EntLt, EntGt, EntQuot} :
                            StartsWith(SubSeq(text, i, Len(text)), ent)
            /\ text = Concat([i \in 1..Len(title) |-> EntityOf(title[i])])

\* The document made for the title <script>
C10_Witness ==
    /\ pc = "generated"
    /\ title = TitleScript
    /\ output.html.titleText = EntLt \o SubSeq(TitleScript, 2, 7) \o EntGt

-----------------------------------------------------------------------------
(* Import resolution *)

\* The readFile calls of the run, in order
Reads == SelectSeq(calls, LAMBDA c : c.op = "read")

\* C11: during one import-resolution run no file is read twice, whatever the
\* import graph and however the references to a file are spelled: the
\* absolute paths handed to readFile are pairwise different.
C11_NoFileReadTwice ==
    \A i, j \in 1..Len(Reads) : Reads[i].arg = Reads[j].arg => i = j

ResolvedImport(key, importPath) ==
    IF DirnameRel(key) = <<SegHere>> THEN importPath
    ELSE JoinRel(DirnameRel(key), importPath)

\* loadFileWithImports has dealt with every reference of every file it stored
EveryImportTried ==
    \A key \in DOMAIN fsMap :
       \A i \in 1..Len(ParseD2Imports(fsMap[key])) :
          ResolvedImport(key, ParseD2Imports(fsMap[key])[i]) \in seen \cup failed

\* buildFileSystem has dealt with every reference of every file it stored: it
\* read the target it could access, or warned
EveryRefHandled ==
    \A key \in DOMAIN fsMap :
       \A i \in 1..Len(PatternRefs(fsMap[key])) :
          LET importRef == PatternRefs(fsMap[key])[i]
              currentDir == Dirname(Resolve(Dirname(inputPath) \o key))
              altPath == Join(currentDir, importRef)
              importPath == WithD2(altPath)
              target == IF CanAccess(disk, importPath) THEN importPath
                        ELSE altPath
          IN  IF CanAccess(disk, target)
              THEN \E c \in 1..Len(Reads) : Reads[c].arg = target
              ELSE \E w \in 1..Len(warnings) :
                      warnings[w] = ImportWarning(importRef, key)

\* The entry's text is the single reference ...@a
EntryOnlySpreadsA == disk[inputPath].content = <<Spread(<<SegA>>)>>

\* C13: a reference whose target cannot be read is not fatal: no exception is
\* raised, the reference is skipped (nothing is stored for it) and the
\* remaining references are still dealt with; when the entry's only reference
\* is ...@a and a.d2 does not exist, the returned file set holds the entry
\* alone.
C13_UnreadableImportSkipped ==
    /\ error = NoError
    /\ pc \in {"start", "loading", "loaded", "resolved"}
    /\ \A i \in 1..Len(Reads) :
          Reads[i].result = "failed" =>
             \A key \in DOMAIN fsMap :
                /\ ResolveIn(watchDir, key) # Reads[i].arg
                /\ Resolve(Dirname(inputPath) \o key) # Reads[i].arg
    /\ pc = "loaded" => EveryImportTried
    /\ pc = "resolved" => EveryRefHandled
    /\ (pc \in {"loaded", "resolved"} /\ EntryOnlySpreadsA
          /\ ~CanAccess(disk, <<SegProj, SegAd2>>))
       => DOMAIN fsMap = {entryPath}

\* loadFileWithImports returned after a read failed and a later one succeeded
C13_Witness ==
    /\ pc = "loaded"
    /\ \E i, j \in 1..Len(Reads) :
          i < j /\ Reads[i].result = "failed" /\ Reads[j].result = "ok"

\* C14: in loadFileWithImports every reference whose directory-relative path
\* fails to be read is retried at its root-relative path before it is
\* abandoned (also when another file's reference had already made that
\* directory-relative path fail), and no path is read more than once: on
\* return, the alternate of every failed directory-relative path has been
\* read or has failed, and there are as many reads as paths seen or failed.
C14_AlternateRetried ==
    /\ seen \cap failed = {}
    /\ pc \in {"loading", "loaded"} =>
          Len(Reads) = Cardinality(seen \cup failed)
    /\ pc = "loaded" =>
          \A key \in DOMAIN fsMap :
             \A i \in 1..Len(ParseD2Imports(fsMap[key])) :
                LET importPath == ParseD2Imports(fsMap[key])[i]
                    resolvedImport == ResolvedImport(key, importPath)
                IN  (resolvedImport # importPath /\ resolvedImport \in failed)
                       => StripSlash(importPath) \in seen \cup failed

\* The files a file on disk imports: its spread and named references, with
\* the default extension, resolved against the file's own directory
ImportTargets(file) ==
    IF ~CanRead(disk, file) THEN {}
    ELSE { Resolve(Dirname(file) \o ParseD2Imports(disk[file].content)[i]) :
             i \in 1..Len(ParseD2Imports(disk[file].content)) }

RECURSIVE ReachableFrom(_)
\* The files reachable from a set of files through their imports
ReachableFrom(files) ==
    LET more == files \cup UNION {ImportTargets(f) : f \in files}
    IN  IF more = files THEN files ELSE ReachableFrom(more)

\* The file a key of the returned file set stands for
StoredFile(key) ==
    IF pc = "resolved" THEN Resolve(Dirname(inputPath) \o key)
    ELSE ResolveIn(watchDir, key)

\* C15: the file set returned by either resolver holds the entry file and
\* every readable file reachable from it through spread and named references,
\* each reference (with .d2 appended when missing) being resolved against the
\* directory of the file that contains it; every key holds the text of its
\* file.
C15_FileSetHoldsReachable ==
    pc \in {"loaded", "resolved"} =>
       /\ \A file \in ReachableFrom({inputPath}) :
             CanRead(disk, file) =>
                \E key \in DOMAIN fsMap : StoredFile(key) = file
       /\ \A key \in DOMAIN fsMap :
             /\ CanRead(disk, StoredFile(key))
             /\ fsMap[key] = disk[StoredFile(key)].content

\* loadFileWithImports returned a file set that holds sub/b.d2, which only
\* sub/a.d2 references, as b
C15_Witness ==
    /\ pc = "loaded"
    /\ \E key \in DOMAIN fsMap : StoredFile(key) = <<SegProj, SegSub, SegBd2>>

-----------------------------------------------------------------------------
(* The image dimension normalizer *)

\* C16: ensureSvgDimensions is idempotent: for every image string, applying
\* it to its own result gives that result again.
C16_NormalizerIdempotent == Len(sized) = 2 => sized[2] = sized[1]

\* The outer tag of an image string, up to its closing angle bracket
\* (excluded); empty when the string does not start with a closed <svg tag
OuterTag(s) == SubSeq(s, 1, SvgTagClose(s) - 1)

\* text occurs in s
ContainsText(s, text) ==
    \E i \in 1..(Len(s) - Len(text) + 1) :
        SubSeq(s, i, i + Len(text) - 1) = text

\* C17: the normalizer returns its input unchanged (and is defined) whenever
\* the outer tag cannot be matched, or already carries a width attribute, or
\* has no viewBox.
C17_UnchangedWhenNothingToDo ==
    (/\ Len(sized) >= 1
     /\ \/ SvgTagClose(rawSvg) = 0
        \/ HasWidthAttr(OuterTag(rawSvg))
        \/ ~ContainsText(OuterTag(rawSvg), AttrViewBox))
    => sized[1] = rawSvg

\* The normalizer was applied to a string whose outer tag has a width
\* attribute, and a viewBox to take dimensions from
C17_Witness ==
    /\ Len(sized) >= 1
    /\ SvgTagClose(rawSvg) # 0
    /\ HasWidthAttr(OuterTag(rawSvg))
    /\ ContainsText(OuterTag(rawSvg), ViewBox120x80)

\* The whitespace-separated fields of a viewBox value
ViewBoxFields(value) == SelectSeq(SplitSpaces(value), LAMBDA f : f # <<>>)

\* The outer tag of s is matched and its viewBox has four fields
HasFourFieldViewBox(s) ==
    /\ SvgTagClose(s) # 0
    /\ ViewBoxMatch(OuterTag(s)).found
    /\ Len(ViewBoxFields(ViewBoxMatch(OuterTag(s)).group)) = 4

\* s with width and height attributes put before the closing angle bracket
\* of its outer tag
WithDimensions(s, w, h) ==
    OuterTag(s) \o WidthEq \o w \o HeightEq \o h \o <<"\"">>
        \o SubSeq(s, SvgTagClose(s), Len(s))

\* C18: for an image string whose outer tag has no width attribute and a
\* viewBox of four whitespace-separated fields, the normalizer's result is the
\* input with width (the third field) and height (the fourth field) inserted
\* just before the closing angle bracket of the outer tag, every other
\* character unchanged.
C18_DimensionsInserted ==
    (/\ Len(sized) >= 1
     /\ HasFourFieldViewBox(rawSvg)
     /\ ~HasWidthAttr(OuterTag(rawSvg)))
    => LET fields == ViewBoxFields(ViewBoxMatch(OuterTag(rawSvg)).group)
       IN  sized[1] = WithDimensions(rawSvg, fields[3], fields[4])

AttrHeight == <<"h", "e", "i", "g", "h", "t">>

\* tag has an attribute of that name: whitespace, the name, optional
\* whitespace, an equals sign
HasAttr(tag, name) ==
    \E i \in 1..Len(tag) :
        /\ IsSpace(tag[i])
        /\ i + Len(name) <= Len(tag)
        /\ SubSeq(tag, i + 1, i + Len(name)) = name
        /\ \E j \in (i + Len(name) + 1)..Len(tag) :
              /\ tag[j] = "="
              /\ \A m \in (i + Len(name) + 1)..(j - 1) : IsSpace(tag[m])

\* C19: for every image string whose outer tag is matched and has a
\* well-formed four-field viewBox, the outer tag of the normalizer's result
\* has both a width and a height attribute.
C19_ResultHasDimensions ==
    (Len(sized) >= 1 /\ HasFourFieldViewBox(rawSvg))
    => /\ SvgTagClose(sized[1]) # 0
       /\ HasAttr(OuterTag(sized[1]), AttrWidth)
       /\ HasAttr(OuterTag(sized[1]), AttrHeight)

-----------------------------------------------------------------------------
(* Order of the extracted nodes *)

\* The boards a board reports, nulls left out, each with the type of its
\* collection: the layers, then the scenarios, then the steps, each
\* collection in the compiler's order
Typed(boards, type) ==
    [i \in 1..Len(boards) |-> [board |-> boards[i], type |-> type]]

ReportedBoards(board) ==
    LET NotNull(b) == b # NullBoard
    IN  Typed(SelectSeq(board.layers, NotNull), TypeLayer)
          \o Typed(SelectSeq(board.scenarios, NotNull), TypeScenario)
          \o Typed(SelectSeq(board.steps, NotNull), TypeStep)

RECURSIVE InReportedOrder(_, _)
\* nodes are the reported boards of board, one node per board and in their
\* order, and so on below each node
InReportedOrder(nodes, board) ==
    LET reported == ReportedBoards(board)
    IN  /\ Len(nodes) = Len(reported)
        /\ \A i \in 1..Len(nodes) :
              /\ nodes[i].name = reported[i].board.name
              /\ nodes[i].type = reported[i].type
              /\ InReportedOrder(nodes[i].children, reported[i].board)

\* C20: extractLayers emits the root-level nodes and the children of every
\* node in the order in which the compiled diagram reports them, without
\* sorting or reordering, and skips the null entries only.
C20_OrderAsReported == Extracted => InReportedOrder(layers, diagram)

\* The diagram reported timeout, a null entry and auth as its layers, and
\* extractLayers gave timeout before auth
C20_Witness ==
    /\ Extracted
    /\ Len(diagram.layers) = 3
    /\ diagram.layers[2] = NullBoard
    /\ Len(layers) = 2
    /\ layers[1].name = Timeout
    /\ layers[2].name = Auth

-----------------------------------------------------------------------------
(* Titles *)

\* The one board of the diagram, and the node extracted from it
TitledBoard == (diagram.layers \o diagram.scenarios \o diagram.steps)[1]
TitledNode == layers[1]

HasTitle(node) == "title" \in DOMAIN node

\* The identifier is title, or ends in .title
NamesTitle(id) == id = IdTitle \/ EndsWith(id, IdDotTitle)

\* The identifier is d2-config, or lies under d2-config.
Reserved(id) == id = IdConfig \/ StartsWith(id, IdConfigDot)

\* The title that a board carrying this one shape gets
TitleFrom(shape) == ExtractTitle(BoardWith(<<shape>>))

\* C21: the title of a node comes from the first shape of the board's shape
\* list whose identifier is title or ends in .title and is not reserved
\* (d2-config, d2-config.*); a reserved shape is never the one selected, and
\* with no such shape the node has no title field.
C21_TitleFromFirstMatch ==
    Extracted =>
        LET shapes == TitledBoard.shapes
            hits == {i \in 1..Len(shapes) :
                        NamesTitle(shapes[i].id) /\ ~Reserved(shapes[i].id)}
        IN  IF hits = {} THEN ~HasTitle(TitledNode)
            ELSE LET first == shapes[CHOOSE i \in hits : \A k \in hits : i <= k]
                 IN  IF TitleFrom(first) = <<>> THEN ~HasTitle(TitledNode)
                     ELSE /\ HasTitle(TitledNode)
                          /\ TitledNode.title = TitleFrom(first)

\* A reserved shape named d2-config.title with its own label comes first, and
\* the title is that of the title shape after it
C21_Witness ==
    /\ Extracted
    /\ Len(TitledBoard.shapes) = 2
    /\ TitledBoard.shapes[1] = [id |-> IdConfigDot \o IdTitle, label |-> <<"A">>]
    /\ TitledBoard.shapes[2] = [id |-> IdA \o IdDotTitle, label |-> <<"B">>]
    /\ HasTitle(TitledNode)
    /\ TitledNode.title = <<"B">>

\* The board has one shape, named title, with a label
OneTitleShape ==
    /\ Len(TitledBoard.shapes) = 1
    /\ TitledBoard.shapes[1].id = IdTitle
    /\ "label" \in DOMAIN TitledBoard.shapes[1]

TitleLabel == TitledBoard.shapes[1].label

\* The title of the node, the empty string standing for no title field
NodeTitle == IF HasTitle(TitledNode) THEN TitledNode.title ELSE <<>>

\* A heading line: one or more #, then blanks, then text
IsHeadingLine(line) ==
    \E h \in 1..Len(line) :
        /\ \A m \in 1..h : line[m] = "#"
        /\ h < Len(line)
        /\ IsSpace(line[h + 1])
        /\ Trim(SubSeq(line, h + 1, Len(line))) # <<>>

RECURSIVE DropHashes(_)
DropHashes(line) ==
    IF line # <<>> /\ Head(line) = "#" THEN DropHashes(Tail(line)) ELSE line

HeadingText(line) == Trim(DropHashes(line))

\* The label begins with the markdown marker or contains a heading marker
Marked(label) == StartsWith(label, MdMarker) \/ Includes(label, "#")

\* The titles the rule allows for a label: the text of the first heading
\* line of a marked label that has one; otherwise the first non-empty line
\* (with or without the blanks around it), or the raw label when every line
\* is empty. The lines of a marked label are those after the marker.
TitlesAllowed(label) ==
    LET lines == SplitLines(IF Marked(label) THEN StripMdPrefix(label) ELSE label)
        headings == {i \in 1..Len(lines) : IsHeadingLine(lines[i])}
        nonEmpty == {i \in 1..Len(lines) : Trim(lines[i]) # <<>>}
    IN  IF Marked(label) /\ headings # {}
        THEN {HeadingText(lines[CHOOSE i \in headings : \A k \in headings : i <= k])}
        ELSE IF nonEmpty # {}
        THEN LET line == lines[CHOOSE i \in nonEmpty : \A k \in nonEmpty : i <= k]
             IN  {line, Trim(line)}
        ELSE {label}

\* C22: a title shape's label that begins with the markdown marker or
\* contains a heading marker gives the text of its first heading line as the
\* title; any other label gives its first non-empty line, or the raw label
\* when no line is non-empty.
C22_TitleFromLabel ==
    (Extracted /\ OneTitleShape) => NodeTitle \in TitlesAllowed(TitleLabel)

-----------------------------------------------------------------------------
(* The d2-service handle *)

\* C23: the d2-service creates its handle on the first compile or render
\* call and at most once: none before the first call, and from then on,
\* whatever the interleaving of the calls, exactly one handle has been
\* created and every call holds that handle.
C23_OneHandle ==
    IF svcCalls = <<>> THEN created = 0 /\ d2Instance = NoHandle
    ELSE /\ created = 1
         /\ d2Instance # NoHandle
         /\ \A i \in 1..Len(svcCalls) : svcCalls[i].d2 = d2Instance

\* Three calls share the handle: a compile that has returned, a render that
\* is issued, and a third call still at its await getD2()
C23_Witness ==
    /\ Len(svcCalls) = 3
    /\ svcCalls[1].op = "compile" /\ svcCalls[1].at = "returned"
    /\ svcCalls[2].op = "render" /\ svcCalls[2].at = "issued"
    /\ svcCalls[3].at = "getD2"

-----------------------------------------------------------------------------
(* The live-reload server *)

\* The text that a file set holds for the entry file of a request: the
\* resolver stores the entry under the requested path less a leading slash
EntryTextOf(fs, path) ==
    IF StripSlash(path) \in DOMAIN fs THEN fs[StripSlash(path)] ELSE <<>>

\* C24: a load message is answered by exactly one file message, sent to the
\* client that asked and to no other, carrying the requested path, the file
\* set resolved from it and, as content, the file set's text for the entry
\* file (empty file set and empty content when the entry cannot be read);
\* nothing is sent before the file set is resolved, and nothing is
\* transmitted to a client whose socket is no longer open by then.
C24_OneReplyPerLoad ==
    /\ events.kind = "load" => wire = <<>>
    /\ events.kind = "file" =>
          LET fs == LoadFileWithImports(events.path, disk)
          IN  wire = IF events.from \in events.open
                     THEN <<Message(events.from, "file", events.path, fs,
                                    EntryTextOf(fs, events.path))>>
                     ELSE <<>>

\* The type of the message that tells of a watcher event
PushedType(kind) == IF kind = "unlink" THEN "remove" ELSE kind

\* C25: a change, add or unlink event is pushed as one change, add or remove
\* message with the file's path to every client whose socket is open at
\* that moment and to no other, and the clients set is the set of the
\* connections opened and not yet closed.
C25_NotifyOpenClients ==
    /\ clients = {c \in 1..Len(conns) : conns[c] # "closed"}
    /\ events.kind \in {"change", "add", "unlink"} =>
          /\ Len(wire) = Cardinality(events.open)
          /\ \A c \in events.open : \E i \in 1..Len(wire) : wire[i].to = c
          /\ \A i \in 1..Len(wire) :
                /\ wire[i].to \in events.open
                /\ wire[i].type = PushedType(events.kind)
                /\ wire[i].path = events.path

\* A file was removed while one client was open, one had left the open state
\* without its close event yet; the one message went to the open client
C25_Witness ==
    /\ events.kind = "unlink"
    /\ events.open = {2}
    /\ clients = {1, 2}
    /\ conns[1] = "closing"
    /\ Len(wire) = 1
    /\ wire[1].to = 2
    /\ wire[1].type = "remove"

-----------------------------------------------------------------------------
(* The embed viewer *)

\* C26: a document opened with a URL hash that names a target starts on that
\* target if the embedded data holds an image for it, and on the root (the
\* empty path) otherwise.
C26_InitialTargetFromHash ==
    (pc = "mounted" /\ embedData # NoData /\ named # <<>>) =>
        currentTarget = IF named \in DOMAIN embedData.svgs THEN named
                        ELSE <<>>

-----------------------------------------------------------------------------
(* The command line of the export script *)

\* C27: run without -o, the export script writes to a path that differs from
\* its input path, whatever the name of the input file.
C27_InputNotOverwritten ==
    (pc = "written" /\ args.output = NoOption) =>
        written.path # paths.inputPath

-----------------------------------------------------------------------------
(* The App component of the live viewer                                     *)

\* The files the server answers the App from: main.d2 spreads a.d2 and b.d2,
\* and b.d2 is empty
ViewerDisk ==
    [p \in {watchDir \o <<SegMain>>, watchDir \o <<SegAd2>>,
            watchDir \o <<SegBd2>>} |->
        File(IF p = watchDir \o <<SegMain>>
             THEN <<Spread(<<SegA>>), Spread(<<SegB>>)>>
             ELSE IF p = watchDir \o <<SegAd2>> THEN <<Text>> ELSE <<>>)]

\* The paths of the change messages: the files on disk and x.d2
ChangedPaths == {<<SegMain>>, <<SegAd2>>, <<SegBd2>>, <<SegXd2>>}

\* The paths typed into the file input: main.d2, /main.d2 and x.d2, which is
\* not on disk
ViewerPaths == {<<SegMain>>, <<SegEmpty, SegMain>>, <<SegXd2>>}

\* The targets the user goes to: the root and layers.a
ViewerTargets == {<<>>, TargetA}

Layouts == {"dagre", "elk"}

\* A run of the compile effect, awaiting compile() and then render()
Run(fs, path, lay, sk) ==
    [fs |-> fs, inputPath |-> path, layout |-> lay, sketch |-> sk,
     at |-> "compile", target |-> <<>>]

\* What compile() resolves with, named by what it was called with
ResultOf(run) ==
    [compiled |-> TRUE, fs |-> run.fs, inputPath |-> run.inputPath,
     layout |-> run.layout, sketch |-> run.sketch]

\* What render() resolves with, named by what it was called with
Svg(result, target) == [rendered |-> TRUE, result |-> result, target |-> target]

RenderCallOf(result, target) == [result |-> result, target |-> target]

\* ws.readyState === WebSocket.OPEN, on the socket states socks
IsOpen(socks) == ws # NoSocket /\ socks[ws] = "open"

\* A requestFile that sends whatever the state of the socket
RequestFileAlways(path) == loads' = loads (+) SetToBag({path})

\* requestFile: a load message leaves when the socket is open
RequestFile(path) ==
    IF IsOpen(sockets)
    THEN loads' = loads (+) SetToBag({path})
    ELSE UNCHANGED loads

\* The load effect, run when filePath or connected has changed
LoadEffect(path, conn) ==
    IF path # <<>> /\ conn THEN RequestFile(path) ELSE UNCHANGED loads

\* The compile effect up to its first await
CompileEffect(path, fs, lay, sk) ==
    IF path = <<>> \/ DOMAIN fs = {}
    THEN UNCHANGED <<loading, appError, effectRuns>>
    ELSE /\ loading' = TRUE
         /\ appError' = ""
         /\ effectRuns' = effectRuns (+) SetToBag({Run(fs, path, lay, sk)})

\* The render effect up to its await
RenderEffect(result, target) ==
    IF result = NoResult
    THEN UNCHANGED renders
    ELSE renders' = renders (+) SetToBag({RenderCallOf(result, target)})

\* ws.onopen of a socket the server accepts: the connected signal turns true
\* and, as long as the component is mounted, the load effect asks for the file
SocketOpen ==
    /\ pc = "viewing"
    /\ serverUp
    /\ \E s \in 1..Len(sockets) :
       /\ sockets[s] = "connecting"
       /\ sockets' = [sockets EXCEPT ![s] = "open"]
    /\ connected' = TRUE
    /\ IF mounted /\ ~connected /\ appFilePath # <<>> /\ IsOpen(sockets')
       THEN loads' = loads (+) SetToBag({appFilePath})
       ELSE UNCHANGED loads
    /\ UNCHANGED <<pc, batch, service, server, embed, cli, reload, view,
                   inputs, importCount, appFilePath, fileSystem,
                   compileResult, appTarget, shown, appError, loading, layout,
                   sketch, effectRuns, renders, mounted, ws, reconnectTimer,
                   timers, serverUp>>

\* handleFileInput: the path changes, the load effect asks for it and the
\* compile effect runs on the file set held
HandleFileInput(path) ==
    /\ pc = "viewing"
    /\ inputs < MaxInputs
    /\ inputs' = inputs + 1
    /\ path # <<>>
    /\ path # appFilePath
    /\ mounted
    /\ appFilePath' = path
    /\ LoadEffect(path, connected)
    /\ CompileEffect(path, fileSystem, layout, sketch)
    /\ UNCHANGED <<pc, batch, service, server, embed, cli, session, importCount, fileSystem,
                   compileResult, appTarget, shown, layout, sketch,
                   connected, renders>>

\* An onFileLoad that takes every file message
FileLoadedAny(path, fs) ==
    /\ appFilePath' = path
    /\ fileSystem' = fs
    /\ importCount' = Cardinality(DOMAIN fs) - 1
    /\ CompileEffect(path, fs, layout, sketch)

\* onFileLoad of a file message with this path and file set: the message is
\* taken when it is for the current path or no path is set, and then the
\* compile effect runs on the file set received
FileLoaded(path, fs) ==
    IF path = appFilePath \/ appFilePath = <<>>
    THEN /\ appFilePath' = path
         /\ fileSystem' = fs
         /\ importCount' = Cardinality(DOMAIN fs) - 1
         /\ CompileEffect(path, fs, layout, sketch)
    ELSE UNCHANGED <<appFilePath, fileSystem, importCount, loading, appError,
                     effectRuns>>

\* The load effect run by onFileLoad sends a request: the message set the
\* path
AsksAgain(path) ==
    appFilePath = <<>> /\ path # <<>> /\ connected /\ IsOpen(sockets)

\* ws.onmessage of the file message that answers load(path), and onFileLoad
OnFileLoad(path) ==
    /\ pc = "viewing"
    /\ path \in BagToSet(loads)
    /\ loads' = IF AsksAgain(path) THEN loads
                ELSE loads (-) SetToBag({path})
    /\ FileLoaded(path, LoadFileWithImports(path, ViewerDisk))
    /\ UNCHANGED <<pc, batch, service, server, embed, cli, session, inputs,
                   compileResult, appTarget, shown, layout, sketch,
                   connected, renders>>

\* onFileChange: the entry file is asked for again when the changed path is
\* the entry path or has content in the file set held
FileChanged(changedPath) ==
    IF /\ appFilePath # <<>>
       /\ \/ changedPath = appFilePath
          \/ /\ changedPath \in DOMAIN fileSystem
             /\ fileSystem[changedPath] # <<>>
    THEN RequestFile(appFilePath)
    ELSE UNCHANGED loads

\* ws.onmessage of a change message, and onFileChange
OnFileChange(changedPath) ==
    /\ pc = "viewing"
    /\ inputs < MaxInputs
    /\ inputs' = inputs + 1
    /\ IsOpen(sockets)
    /\ FileChanged(changedPath)
    /\ UNCHANGED <<pc, batch, service, server, embed, cli, session,
                   importCount, appFilePath, fileSystem, compileResult,
                   appTarget, shown, appError, loading, layout, sketch,
                   connected, effectRuns, renders>>

\* handleSelectLayer and handleDiagramClick: the target changes and the render
\* effect runs
HandleSelectLayer(target) ==
    /\ pc = "viewing"
    /\ inputs < MaxInputs
    /\ inputs' = inputs + 1
    /\ target # <<>>
    /\ target # appTarget
    /\ appTarget' = target
    /\ RenderEffect(compileResult, target)
    /\ UNCHANGED <<pc, batch, service, server, embed, cli, session, importCount, appFilePath,
                   fileSystem, compileResult, shown, appError, loading,
                   layout, sketch, connected, effectRuns, loads>>

\* handleGoToRoot, its button enabled on a target other than the root
HandleGoToRoot ==
    /\ pc = "viewing"
    /\ inputs < MaxInputs
    /\ inputs' = inputs + 1
    /\ appTarget # <<>>
    /\ appTarget' = <<>>
    /\ RenderEffect(compileResult, <<>>)
    /\ UNCHANGED <<pc, batch, service, server, embed, cli, session, importCount, appFilePath,
                   fileSystem, compileResult, shown, appError, loading,
                   layout, sketch, connected, effectRuns, loads>>

\* The layout selector: the compile effect runs again
SetLayout(lay) ==
    /\ pc = "viewing"
    /\ inputs < MaxInputs
    /\ inputs' = inputs + 1
    /\ lay # layout
    /\ layout' = lay
    /\ CompileEffect(appFilePath, fileSystem, lay, sketch)
    /\ UNCHANGED <<pc, batch, service, server, embed, cli, session, importCount, appFilePath,
                   fileSystem, compileResult, appTarget, shown, sketch,
                   connected, renders, loads>>

\* The sketch checkbox: the compile effect runs again
SetSketch(sk) ==
    /\ pc = "viewing"
    /\ inputs < MaxInputs
    /\ inputs' = inputs + 1
    /\ sk # sketch
    /\ sketch' = sk
    /\ CompileEffect(appFilePath, fileSystem, layout, sk)
    /\ UNCHANGED <<pc, batch, service, server, embed, cli, session, importCount, appFilePath,
                   fileSystem, compileResult, appTarget, shown, layout,
                   connected, renders, loads>>

\* compile() of a run resolves: the result is stored, the render effect runs
\* on it, and the run goes on to its own render of the target of that moment
CompileResolves ==
    /\ pc = "viewing"
    /\ \E run \in BagToSet(effectRuns) :
       /\ run.at = "compile"
       /\ compileResult' = ResultOf(run)
       /\ RenderEffect(compileResult', appTarget)
       /\ effectRuns' = (effectRuns (-) SetToBag({run}))
                        (+) SetToBag({[run EXCEPT !.at = "render",
                                                  !.target = appTarget]})
       /\ UNCHANGED <<pc, batch, service, server, embed, cli, session, importCount, inputs,
                      appFilePath, fileSystem, appTarget, shown, appError, loading, layout,
                      sketch, connected, loads>>

\* compile() or render() of a run rejects: catch, then finally
RunRejects ==
    /\ pc = "viewing"
    /\ \E run \in BagToSet(effectRuns) :
       /\ appError' = "error"
       /\ shown' = NoSvg
       /\ loading' = FALSE
       /\ effectRuns' = effectRuns (-) SetToBag({run})
       /\ UNCHANGED <<pc, batch, service, server, embed, cli, session, importCount, inputs,
                      appFilePath, fileSystem, compileResult, appTarget, layout, sketch,
                      connected, renders, loads>>

\* render() of a run resolves: the image is stored, then finally
RunRenderResolves ==
    /\ pc = "viewing"
    /\ \E run \in BagToSet(effectRuns) :
       /\ run.at = "render"
       /\ shown' = Svg(ResultOf(run), run.target)
       /\ loading' = FALSE
       /\ effectRuns' = effectRuns (-) SetToBag({run})
       /\ UNCHANGED <<pc, batch, service, server, embed, cli, session, importCount, inputs,
                      appFilePath, fileSystem, compileResult, appTarget, appError, layout,
                      sketch, connected, renders, loads>>

\* render() of the render effect resolves: the image is stored and the zoom
\* reset
RenderResolves ==
    /\ pc = "viewing"
    /\ \E call \in BagToSet(renders) :
       /\ shown' = Svg(call.result, call.target)
       /\ appError' = ""
       /\ zoom' = ZoomOne
       /\ renders' = renders (-) SetToBag({call})
       /\ UNCHANGED <<pc, batch, service, server, embed, cli, hook, reload,
                      importCount, inputs,
                      appFilePath, fileSystem, compileResult, appTarget, loading, layout,
                      sketch, connected, effectRuns, loads>>

\* render() of the render effect rejects
RenderRejects ==
    /\ pc = "viewing"
    /\ \E call \in BagToSet(renders) :
       /\ appError' = "error"
       /\ renders' = renders (-) SetToBag({call})
       /\ UNCHANGED <<pc, batch, service, server, embed, cli, session, importCount, inputs,
                      appFilePath, fileSystem, compileResult, appTarget, shown, loading,
                      layout, sketch, connected, effectRuns, loads>>

\* The App as mounted: the path and the target come from the URL hash
InitViewer ==
    /\ pc = "viewing"
    /\ BatchIdle
    /\ ServiceIdle
    /\ ServerIdle
    /\ EmbedIdle
    /\ CliIdle
    /\ ReloadIdle
    /\ ViewIdle
    /\ mounted = TRUE
    /\ sockets = <<"connecting">>
    /\ ws = 1
    /\ reconnectTimer = NoTimer
    /\ timers = {}
    /\ serverUp = TRUE
    /\ importCount = 0
    /\ inputs = 0
    /\ appFilePath \in {<<>>} \cup ViewerPaths
    /\ fileSystem = <<>>
    /\ compileResult = NoResult
    /\ appTarget \in IF appFilePath = <<>> THEN {<<>>} ELSE ViewerTargets
    /\ shown = NoSvg
    /\ appError = ""
    /\ loading = FALSE
    /\ layout = "dagre"
    /\ sketch = FALSE
    /\ connected = FALSE
    /\ effectRuns = EmptyBag
    /\ renders = EmptyBag
    /\ loads = EmptyBag

NextViewer ==
    \/ SocketOpen
    \/ \E path \in ViewerPaths : HandleFileInput(path)
    \/ \E path \in ViewerPaths : OnFileLoad(path)
    \/ \E changedPath \in ChangedPaths : OnFileChange(changedPath)
    \/ \E target \in ViewerTargets : HandleSelectLayer(target)
    \/ HandleGoToRoot
    \/ \E lay \in Layouts : SetLayout(lay)
    \/ \E sk \in BOOLEAN : SetSketch(sk)
    \/ CompileResolves
    \/ RunRejects
    \/ RunRenderResolves
    \/ RenderResolves
    \/ RenderRejects

SpecViewer == InitViewer /\ [][NextViewer]_vars

\* C28: whenever the compiler is invoked with a file set and an input path,
\* the input path is a key of that file set
C28_CompileInputIsKey ==
    \A run \in BagToSet(effectRuns) : run.inputPath \in DOMAIN run.fs

\* No compile or render call of the App is in flight
Quiescent == effectRuns = EmptyBag /\ renders = EmptyBag

\* C29: once no compile or render call is in flight and the latest ones
\* succeeded, the image displayed is the render of the current target from
\* the latest compile result
C29_ShownIsCurrent ==
    (Quiescent /\ appError = "" /\ compileResult # NoResult)
        => shown = Svg(compileResult, appTarget)

\* C30: the loading flag is true exactly while a run of the compile effect
\* has not finished
C30_LoadingWhileRunning == loading <=> effectRuns # EmptyBag

\* C35: a file message is taken only when its path is the current file path
\* or no path is set, and then path, file set and import count are those of
\* the message; a file message for another path leaves the three unchanged
C35_FileMessageFilter ==
    [][\A path \in ViewerPaths :
         OnFileLoad(path) =>
            IF path = appFilePath \/ appFilePath = <<>>
            THEN /\ appFilePath' = path
                 /\ fileSystem' = LoadFileWithImports(path, ViewerDisk)
                 /\ importCount' = Cardinality(DOMAIN fileSystem') - 1
            ELSE UNCHANGED <<appFilePath, fileSystem, importCount>>]_vars

\* The answer for main.d2 has been taken, with its two imports, while the
\* answer to the request for the path entered before, /main.d2, is still to
\* come
C35_Witness ==
    /\ appFilePath = <<SegMain>>
    /\ inputs = 1
    /\ DOMAIN fileSystem = {<<SegMain>>, <<SegAd2>>, <<SegBd2>>}
    /\ importCount = 2
    /\ loads = SetToBag({<<SegEmpty, SegMain>>})

\* C36: on a change message, a load request for the entry path is sent when
\* the changed path is the entry path or a key of the file set held, whatever
\* the content of that file, and nothing is sent otherwise
C36_ReloadOnChange ==
    [][\A changedPath \in ChangedPaths :
         OnFileChange(changedPath) =>
            IF /\ appFilePath # <<>>
               /\ \/ changedPath = appFilePath
                  \/ changedPath \in DOMAIN fileSystem
            THEN loads' = loads (+) SetToBag({appFilePath})
            ELSE loads' = loads]_vars

-----------------------------------------------------------------------------
(* Zooming, in the App (src/App.tsx) and in the embed viewer                 *)
(* (src/embed-viewer.tsx), whose handlers are the same                       *)

\* The limits 10 and 0.1 of the zoom factor
ZoomMax == 10 * ZoomOne
ZoomMin == ZoomOne \div 10

\* Math.min and Math.max
MathMin(x, y) == IF x <= y THEN x ELSE y
MathMax(x, y) == IF x >= y THEN x ELSE y

\* The products and the quotient of the handlers, rounded to a ten-thousandth
Times09(z) == (z * 9) \div 10
Times11(z) == (z * 11) \div 10
Times12(z) == (z * 12) \div 10
Over12(z) == (z * 10) \div 12

\* A + button that does not limit the factor
ZoomInUnlimited ==
    /\ pc \in {"app", "embed"}
    /\ zoom' = Times12(zoom)
    /\ UNCHANGED <<pc, batch, service, server, embed, cli, viewer, hook,
                   reload>>

\* handleWheel: with ctrl, meta or while panning the wheel zooms, by 0.9 for
\* a positive deltaY and by 1.1 otherwise; without, it pans
HandleWheel(zooming, deltaYPositive) ==
    /\ pc \in {"app", "embed"}
    /\ zoom' = IF zooming
               THEN MathMin(MathMax(IF deltaYPositive THEN Times09(zoom)
                                    ELSE Times11(zoom), ZoomMin), ZoomMax)
               ELSE zoom
    /\ UNCHANGED <<pc, batch, service, server, embed, cli, viewer, hook,
                   reload>>

\* The + button
ZoomIn ==
    /\ pc \in {"app", "embed"}
    /\ zoom' = MathMin(Times12(zoom), ZoomMax)
    /\ UNCHANGED <<pc, batch, service, server, embed, cli, viewer, hook,
                   reload>>

\* The - button
ZoomOut ==
    /\ pc \in {"app", "embed"}
    /\ zoom' = MathMax(Over12(zoom), ZoomMin)
    /\ UNCHANGED <<pc, batch, service, server, embed, cli, viewer, hook,
                   reload>>

\* handleResetView
HandleResetView ==
    /\ pc \in {"app", "embed"}
    /\ zoom' = ZoomOne
    /\ UNCHANGED <<pc, batch, service, server, embed, cli, viewer, hook,
                   reload>>

\* A change of target: in the embed viewer an effect resets the zoom, in the
\* App the render effect does once the target is rendered
TargetChange ==
    /\ pc \in {"app", "embed"}
    /\ zoom' = ZoomOne
    /\ UNCHANGED <<pc, batch, service, server, embed, cli, viewer, hook,
                   reload>>

InitZoom ==
    /\ pc \in {"app", "embed"}
    /\ BatchIdle
    /\ ServiceIdle
    /\ ServerIdle
    /\ EmbedIdle
    /\ CliIdle
    /\ ViewerIdle
    /\ HookIdle
    /\ ReloadIdle
    /\ zoom = ZoomOne

NextZoom ==
    \/ \E zooming \in BOOLEAN, deltaYPositive \in BOOLEAN :
          HandleWheel(zooming, deltaYPositive)
    \/ ZoomIn
    \/ ZoomOut
    \/ HandleResetView
    \/ TargetChange

SpecZoom == InitZoom /\ [][NextZoom]_vars

\* C37: after any sequence of wheel zooms, + and - presses, resets and target
\* changes from zoom 1, the zoom factor lies between 0.1 and 10
C37_ZoomWithinLimits ==
    pc \in {"app", "embed"} => ZoomMin <= zoom /\ zoom <= ZoomMax

\* The factor has been driven to its upper limit
C37_Witness == pc \in {"app", "embed"} /\ zoom = ZoomMax

-----------------------------------------------------------------------------
(* useD2FileWatcher (src/App.tsx): the socket, its reconnection and the     *)
(* cleanup. The server's answers are left out: they do not touch the hook.  *)

\* The sockets that are not closed
LiveSockets == {s \in 1..Len(sockets) : sockets[s] # "closed"}

\* new WebSocket(...): the object takes the place of a closed one, or a new
\* place
NewSocket(socks) ==
    IF \E s \in 1..Len(socks) : socks[s] = "closed"
    THEN CHOOSE s \in 1..Len(socks) :
            /\ socks[s] = "closed"
            /\ \A r \in 1..(s - 1) : socks[r] # "closed"
    ELSE Len(socks) + 1

\* setTimeout: a timer that is not pending
NewTimer == CHOOSE t \in 1..MaxTimers :
               /\ t \notin timers
               /\ \A r \in 1..(t - 1) : r \in timers

\* An onclose that schedules no reconnect
OnCloseNoTimer(s) ==
    /\ sockets[s] # "closed"
    /\ sockets' = [sockets EXCEPT ![s] = "closed"]
    /\ connected' = FALSE
    /\ loads' = IF sockets[s] = "connecting" THEN loads ELSE EmptyBag
    /\ UNCHANGED <<reconnectTimer, timers>>
    /\ UNCHANGED <<pc, batch, service, server, embed, cli, reload, view,
                   inputs, importCount, appFilePath, fileSystem,
                   compileResult, appTarget, shown, appError, loading, layout,
                   sketch, effectRuns, renders, mounted, ws, serverUp>>

\* ws.onclose of socket s: connected turns false and a reconnect is scheduled;
\* the requests sent on the socket and not answered are lost with it
OnClose(s) ==
    /\ sockets[s] # "closed"
    /\ sockets' = [sockets EXCEPT ![s] = "closed"]
    /\ connected' = FALSE
    /\ loads' = IF sockets[s] = "connecting" THEN loads ELSE EmptyBag
    /\ Cardinality(timers) < MaxTimers
    /\ reconnectTimer' = NewTimer
    /\ timers' = timers \cup {NewTimer}
    /\ UNCHANGED <<pc, batch, service, server, embed, cli, reload, view,
                   inputs, importCount, appFilePath, fileSystem,
                   compileResult, appTarget, shown, appError, loading, layout,
                   sketch, effectRuns, renders, mounted, ws, serverUp>>

\* The peer or the network starts closing an open socket
PeerCloses ==
    /\ pc = "viewing"
    /\ \E s \in 1..Len(sockets) :
       /\ sockets[s] = "open"
       /\ sockets' = [sockets EXCEPT ![s] = "closing"]
    /\ UNCHANGED <<pc, batch, service, server, embed, cli, reload, view,
                   viewer, mounted, ws, reconnectTimer, timers, serverUp>>

\* The close event of a socket that was closing
CloseCompletes ==
    /\ pc = "viewing"
    /\ \E s \in 1..Len(sockets) : sockets[s] = "closing" /\ OnClose(s)

\* The close event of a connection attempt the server does not accept
ConnectionRefused ==
    /\ pc = "viewing"
    /\ ~serverUp
    /\ \E s \in 1..Len(sockets) : sockets[s] = "connecting" /\ OnClose(s)

\* The reconnect timer fires: connect()
Reconnect ==
    /\ pc = "viewing"
    /\ \E t \in timers : timers' = timers \ {t}
    /\ NewSocket(sockets) <= MaxSockets
    /\ ws' = NewSocket(sockets)
    /\ sockets' = IF ws' <= Len(sockets)
                  THEN [sockets EXCEPT ![ws'] = "connecting"]
                  ELSE Append(sockets, "connecting")
    /\ UNCHANGED <<pc, batch, service, server, embed, cli, reload, view,
                   viewer, mounted, reconnectTimer, serverUp>>

\* onCleanup: the timer held is cleared and the socket held is closed
OnCleanup ==
    /\ pc = "viewing"
    /\ mounted
    /\ mounted' = FALSE
    /\ timers' = timers \ {reconnectTimer}
    /\ sockets' = IF ws # NoSocket /\ sockets[ws] \in {"connecting", "open"}
                  THEN [sockets EXCEPT ![ws] = "closing"]
                  ELSE sockets
    /\ UNCHANGED <<pc, batch, service, server, embed, cli, reload, view,
                   viewer, ws, reconnectTimer, serverUp>>

\* The server stops, or starts, accepting connections
ServerStops ==
    /\ pc = "viewing"
    /\ serverUp
    /\ serverUp' = FALSE
    /\ UNCHANGED <<pc, batch, service, server, embed, cli, reload, view,
                   viewer, mounted, sockets, ws, reconnectTimer, timers>>

ServerStarts ==
    /\ pc = "viewing"
    /\ ~serverUp
    /\ serverUp' = TRUE
    /\ UNCHANGED <<pc, batch, service, server, embed, cli, reload, view,
                   viewer, mounted, sockets, ws, reconnectTimer, timers>>

\* The App as mounted, connect() called, the server up or down
InitSocket ==
    /\ pc = "viewing"
    /\ BatchIdle
    /\ ServiceIdle
    /\ ServerIdle
    /\ EmbedIdle
    /\ CliIdle
    /\ ReloadIdle
    /\ ViewIdle
    /\ mounted = TRUE
    /\ sockets = <<"connecting">>
    /\ ws = 1
    /\ reconnectTimer = NoTimer
    /\ timers = {}
    /\ serverUp \in BOOLEAN
    /\ importCount = 0
    /\ inputs = 0
    /\ appFilePath \in {<<>>} \cup ViewerPaths
    /\ fileSystem = <<>>
    /\ compileResult = NoResult
    /\ appTarget = <<>>
    /\ shown = NoSvg
    /\ appError = ""
    /\ loading = FALSE
    /\ layout = "dagre"
    /\ sketch = FALSE
    /\ connected = FALSE
    /\ effectRuns = EmptyBag
    /\ renders = EmptyBag
    /\ loads = EmptyBag

NextSocket ==
    \/ SocketOpen
    \/ PeerCloses
    \/ CloseCompletes
    \/ ConnectionRefused
    \/ Reconnect
    \/ OnCleanup
    \/ ServerStops
    \/ ServerStarts
    \/ \E path \in ViewerPaths : HandleFileInput(path)

SpecSocket == InitSocket /\ [][NextSocket]_vars

\* Timers fire, accepted connections open, and close events arrive
SpecSocketLive ==
    /\ SpecSocket
    /\ WF_vars(SocketOpen)
    /\ WF_vars(Reconnect)
    /\ WF_vars(CloseCompletes)

\* C33: once the hook has been cleaned up no reconnect timer is pending and
\* no new WebSocket is created, also after the close event of the cleanup's
\* own ws.close().
C33_NoReconnectAfterCleanup ==
    /\ [](~mounted => timers = {})
    /\ [][~mounted => ~Reconnect]_vars

\* What does hold: a cleanup that finds the socket already closed leaves no
\* timer and no socket behind it.
C33_CleanupOfClosedSocket ==
    [][(OnCleanup /\ sockets[ws] = "closed")
           => (timers' = {} /\ LiveSockets' = {})]_vars

\* C32: at most one socket is not closed; a close event while mounted turns
\* connected false and leaves exactly one reconnect timer pending; and when
\* the App stays mounted and the server ends up accepting connections, the
\* client is connected again and again.
C32_Reconnects ==
    /\ [](Cardinality(LiveSockets) <= 1)
    /\ [][(mounted /\ (CloseCompletes \/ ConnectionRefused))
             => (~connected' /\ Cardinality(timers') = 1
                 /\ reconnectTimer' \in timers')]_vars
    /\ ([]mounted /\ <>[]serverUp) => []<>connected

\* The socket has closed while mounted and the server is down: one timer is
\* pending, no socket is left and the requests in flight are gone.
C32_Witness ==
    /\ pc = "viewing"
    /\ mounted
    /\ ~serverUp
    /\ ~connected
    /\ LiveSockets = {}
    /\ Cardinality(timers) = 1
    /\ reconnectTimer \in timers
    /\ appFilePath # <<>>
    /\ loads = EmptyBag
    /\ inputs = 1

\* C34: a load message is sent only on an open socket; the opening of the
\* socket with a path set sends a request for it; a path entered while the
\* socket is open and connected is true is requested, any other is dropped;
\* and with the App mounted and the server accepting connections in the end,
\* a path that is set is requested at some later moment.
C34_LoadRequests ==
    /\ [][(\E p \in ViewerPaths : CopiesIn(p, loads') > CopiesIn(p, loads))
             => IsOpen(sockets')]_vars
    /\ [][(SocketOpen /\ mounted /\ appFilePath # <<>>)
             => CopiesIn(appFilePath, loads') = CopiesIn(appFilePath, loads) + 1]_vars
    /\ [][\A p \in ViewerPaths : HandleFileInput(p)
             => IF IsOpen(sockets) /\ connected
                THEN loads' = loads (+) SetToBag({p})
                ELSE loads' = loads]_vars
    /\ ([]mounted /\ <>[]serverUp)
          => [](appFilePath # <<>> => <>(appFilePath \in BagToSet(loads)))

\* A path typed while disconnected has been requested at the reconnect.
C34_Witness ==
    /\ pc = "viewing"
    /\ inputs = 1
    /\ reconnectTimer # NoTimer
    /\ IsOpen(sockets)
    /\ connected
    /\ CopiesIn(appFilePath, loads) = 1

-----------------------------------------------------------------------------
(* Live reload from end to end: the files change on disk, the watcher       *)
(* reports, the App asks again, and the load handlers of the server         *)
(* (d2WatchPlugin, ws.on("message")), one per request, each read the files  *)
(* one await at a time. The compile that follows a file message is started  *)
(* and not followed.                                                        *)

\* The watched files before any write: main.d2 spreads a.d2
ReloadDisk ==
    (watchDir \o <<SegMain>> :> File(<<Spread(<<SegA>>)>>))
    @@ (watchDir \o <<SegAd2>> :> File(<<Text>>))

\* The files that get written to
EditedPaths == {<<SegMain>>, <<SegAd2>>}

RECURSIVE SkipSeen(_, _, _)
\* if (seen.has(normalizedPath) || failed.has(normalizedPath)) continue
SkipSeen(q, seenNow, failedNow) ==
    IF q = <<>> THEN q
    ELSE IF StripSlash(Head(q).path) \in seenNow \cup failedNow
    THEN SkipSeen(Tail(q), seenNow, failedNow)
    ELSE q

\* One turn of the while loop of loadFileWithImports for the item at the head
\* of the queue: the readFile settles on the disk as it is now, and the loop
\* goes on to its next readFile or to its end
HandlerLoop(h, dsk) ==
    LET item == Head(h.queue)
        normalizedPath == StripSlash(item.path)
        absolutePath == ResolveIn(watchDir, normalizedPath)
        content == dsk[absolutePath].content
        after ==
            IF CanRead(dsk, absolutePath)
            THEN [h EXCEPT
                    !.fs = (normalizedPath :> content) @@ h.fs,
                    !.seen = h.seen \cup {normalizedPath},
                    !.queue = QueueImports(ParseD2Imports(content),
                                           DirnameRel(normalizedPath),
                                           Tail(h.queue),
                                           h.seen \cup {normalizedPath},
                                           h.failed)]
            ELSE [h EXCEPT
                    !.failed = h.failed \cup {normalizedPath},
                    !.queue = IF item.alternatives # <<>>
                              THEN <<Item(Head(item.alternatives),
                                          Tail(item.alternatives))>>
                                   \o Tail(h.queue)
                              ELSE Tail(h.queue)]
    IN  [after EXCEPT !.queue = SkipSeen(after.queue, after.seen, after.failed)]

\* A write to a watched file while the App is connected: the text grows by a
\* token and chokidar has a change event to deliver
EditFile ==
    /\ pc = "viewing"
    /\ edits < MaxEdits
    /\ edits' = edits + 1
    /\ connected
    /\ IsOpen(sockets)
    /\ \E p \in EditedPaths :
       /\ disk' = [disk EXCEPT ![watchDir \o p].content = Append(@, Text)]
       /\ fsEvents' = fsEvents \cup {p}
    /\ UNCHANGED <<pc, title, fsMap, warnings, diagram, layers, targets, svgs,
                   next, calls, error, output, stderr, exitCode, plugin,
                   normalizer, service, server, embed, cli, viewer, hook,
                   view, downstream, handlers>>

\* watcher.on("change"): the change message is broadcast
WatcherReports ==
    /\ pc = "viewing"
    /\ \E p \in fsEvents :
       /\ fsEvents' = fsEvents \ {p}
       /\ downstream' = Append(downstream, [type |-> "change", path |-> p])
    /\ UNCHANGED <<pc, batch, service, server, embed, cli, viewer, hook,
                   view, handlers, edits>>

\* ws.on("message") of a load message: loadFileWithImports is called and
\* runs up to its first readFile
HandlerStart ==
    /\ pc = "viewing"
    /\ \E path \in BagToSet(loads) :
       /\ loads' = loads (-) SetToBag({path})
       /\ handlers' = handlers (+) SetToBag({[path |-> path,
                                              queue |-> <<Item(path, <<>>)>>,
                                              seen |-> {}, failed |-> {},
                                              fs |-> <<>>]})
    /\ UNCHANGED <<pc, batch, service, server, embed, cli, hook, view,
                   inputs, importCount, appFilePath, fileSystem,
                   compileResult, appTarget, shown, appError, loading, layout,
                   sketch, connected, effectRuns, renders, downstream,
                   fsEvents, edits>>

\* A readFile of one handler settles; the handler whose queue is then empty
\* sends its file message
HandlerTurn ==
    /\ pc = "viewing"
    /\ \E h \in BagToSet(handlers) :
       LET after == HandlerLoop(h, disk)
       IN  IF after.queue = <<>>
           THEN /\ handlers' = handlers (-) SetToBag({h})
                /\ downstream' = Append(downstream,
                                        [type |-> "file", path |-> h.path,
                                         fs |-> after.fs])
           ELSE /\ handlers' = (handlers (-) SetToBag({h}))
                                  (+) SetToBag({after})
                /\ UNCHANGED downstream
    /\ UNCHANGED <<pc, batch, service, server, embed, cli, viewer, hook,
                   view, fsEvents, edits>>

\* ws.onmessage of the App for the next message of the server
ReceiveMessage ==
    /\ pc = "viewing"
    /\ downstream # <<>>
    /\ downstream' = Tail(downstream)
    /\ LET msg == Head(downstream)
       IN  IF msg.type = "file"
           THEN /\ FileLoaded(msg.path, msg.fs)
                /\ UNCHANGED loads
           ELSE /\ FileChanged(msg.path)
                /\ UNCHANGED <<appFilePath, fileSystem, importCount, loading,
                               appError, effectRuns>>
    /\ UNCHANGED <<pc, batch, service, server, embed, cli, hook, view,
                   inputs, compileResult, appTarget, shown, layout, sketch,
                   connected, renders, handlers, fsEvents, edits>>

\* The App mounted on main.d2, its socket connecting, the files unwritten
InitReload ==
    /\ pc = "viewing"
    /\ disk = ReloadDisk
    /\ title = <<>>
    /\ fsMap = <<>>
    /\ warnings = <<>>
    /\ diagram = NoDiagram
    /\ layers = <<>>
    /\ targets = <<>>
    /\ svgs = <<>>
    /\ next = 1
    /\ calls = <<>>
    /\ error = NoError
    /\ output = NoFile
    /\ stderr = <<>>
    /\ exitCode = Running
    /\ queue = <<>>
    /\ seen = {}
    /\ failed = {}
    /\ rawSvg = <<>>
    /\ sized = <<>>
    /\ ServiceIdle
    /\ ServerIdle
    /\ EmbedIdle
    /\ CliIdle
    /\ ReloadIdle
    /\ ViewIdle
    /\ mounted = TRUE
    /\ sockets = <<"connecting">>
    /\ ws = 1
    /\ reconnectTimer = NoTimer
    /\ timers = {}
    /\ serverUp = TRUE
    /\ importCount = 0
    /\ inputs = 0
    /\ appFilePath = <<SegMain>>
    /\ fileSystem = <<>>
    /\ compileResult = NoResult
    /\ appTarget = <<>>
    /\ shown = NoSvg
    /\ appError = ""
    /\ loading = FALSE
    /\ layout = "dagre"
    /\ sketch = FALSE
    /\ connected = FALSE
    /\ effectRuns = EmptyBag
    /\ renders = EmptyBag
    /\ loads = EmptyBag

NextReload ==
    \/ SocketOpen
    \/ EditFile
    \/ WatcherReports
    \/ HandlerStart
    \/ HandlerTurn
    \/ ReceiveMessage

SpecReload == InitReload /\ [][NextReload]_vars

\* The files of the file set held have on disk the text held
HoldsLatest ==
    \A p \in DOMAIN fileSystem :
        /\ CanRead(disk, watchDir \o p)
        /\ fileSystem[p] = disk[watchDir \o p].content

\* Every message that a write led to has been processed
ReloadSettled ==
    /\ fsEvents = {}
    /\ downstream = <<>>
    /\ loads = EmptyBag
    /\ handlers = EmptyBag

\* C31: when the files of the file set have been written to while the App is
\* connected and every message this led to has been processed, the file set
\* held has the latest text of each of its files.
C31_LatestAfterReload ==
    (pc = "viewing" /\ edits > 0 /\ ReloadSettled /\ fileSystem # <<>>)
        => HoldsLatest

\* What does hold: with a server that takes up a load request only when no
\* earlier one is still being answered, the file set held at the end is the
\* latest.
HandlerStartAlone == handlers = EmptyBag /\ HandlerStart

NextReloadSerial ==
    \/ SocketOpen
    \/ EditFile
    \/ WatcherReports
    \/ HandlerStartAlone
    \/ HandlerTurn
    \/ ReceiveMessage

SpecReloadSerial == InitReload /\ [][NextReloadSerial]_vars

=============================================================================
